---- MODULE Spec2Model ----
(***************************************************************************)
(* ESP32 Network Blocker: the Controller and the Switchbox as two nodes,   *)
(* each running the Arduino loop task ("main") and the WiFi task ("wifi")  *)
(* in which ESP-NOW invokes OnDataRecv and OnDataSent.  The two tasks of a *)
(* node interleave between any two accesses to the volatile globals.       *)
(***************************************************************************)
EXTENDS Naturals, Sequences, FiniteSets, TLC

(* ------------------------------ bounds -------------------------------- *)

\* environment events (button changes, lost or rejected frames, expiries of
\* the touch-base target) in one behaviour
MaxEnv == 2
\* frames one node may have handed to the radio and not yet resolved
MaxAir == 1
\* polls of the button in the specification of checkEmergencyStopButton
MaxPolls == 2

(* ------------------------ program constants --------------------------- *)

FlashRateOfTheLEDWhenThereIsACommunicationsProblemBetweenTheControllerAndSwitch == 333
FlashRateOfTheLEDWhenThereIsAWiringProblem == 1000
FlashRateOfTheLEDWhenTheESPNOWFailedToInitialize == 3000

touchBaseTimePeriodWhenAllIsGood == 30000
touchBaseTimePeriodWhenThereIsAKnownProblem == 5000
touchbaseOffsetsForSwitchbox == 1500
touchBaseGuardPeriod == 2000

blocked == "blocked"
unblocked == "unblocked"
unknown == "unknown"
device_Status == {blocked, unblocked, unknown}

requestNetworkStatus == "requestNetworkStatus"
networkStatusReply == "networkStatusReply"
requestSwitchboxStatus == "requestSwitchboxStatus"
switchboxStatusReply == "switchboxStatusReply"
requestControllerBlockNetwork == "requestControllerBlockNetwork"
requestControllerUnblockNetwork == "requestControllerUnblockNetwork"
transmission_Type ==
  {requestNetworkStatus, networkStatusReply, requestSwitchboxStatus,
   switchboxStatusReply, requestControllerBlockNetwork,
   requestControllerUnblockNetwork}

transmission_Structure(t, s) == [transmission |-> t, status |-> s]

Node == {"ctl", "sbx"}
Peer(n) == IF n = "ctl" THEN "sbx" ELSE "ctl"
Task == {"main", "wifi"}

(* ------------------------------ state --------------------------------- *)

VARIABLES
  mem,      \* [Node -> globals]: the globals of the sketch running on each node
  button,   \* [Node -> {"released","engaged"}]: the Emergency Stop button
  pc,       \* [Node -> [Task -> label]]
  stack,    \* [Node -> [Task -> Seq(label)]]: return labels
  frame,    \* [Node -> [Task -> locals]]
  air,      \* [Node -> Seq(transmission)]: frames handed to esp_now_send
  events,   \* [Node -> Seq(callback)]: callbacks pending for the WiFi task
  env,      \* [toggles, faults, expiries |-> Nat]: environment events so far
  networkBlockingIsActive,  \* BOOLEAN: the flag of the OPNsense sketch
  pins,     \* the pin levels read by the routine under test
  probe     \* its position, locals and result

\* const bool useASwitchbox = true: the build with a remote Switchbox, and
\* the one without it, which the specification of the Controller on its own
\* selects
useASwitchbox == probe.at # "alone"

tasks == <<pc, stack, frame>>
radio == <<air, events>>
pure == <<networkBlockingIsActive, pins, probe>>
vars == <<mem, button, tasks, radio, env, pure>>

\* the globals as the sketch initialises them and setupTheESP32Pins leaves the
\* pins; nextTouchBaseTimeTarget holds the period added to millis() by its last
\* assignment and touchBaseDue tells that millis() has passed it; relayPin is
\* the level of controllerRelayConnectionPin
Globals ==
  [thisIsTheController |-> FALSE,
   thisIsTheSwitchbox |-> FALSE,
   ControllerSwitchStatus |-> unknown,
   SwitchBoxSwitchStatus |-> unknown,
   NetworkStatus |-> unblocked,
   FlashRateOfTheLED |-> 0,
   nextTouchBaseTimeTarget |-> touchBaseTimePeriodWhenAllIsGood,
   touchBaseDue |-> FALSE,
   packedSentSuccesfully |-> FALSE,
   relayPin |-> "LOW",
   lastControllerSwitchStatus |-> unknown,
   lastSwitchBoxSwitchStatus |-> unknown,
   recvRegistered |-> FALSE]

NoMsg == transmission_Structure("none", unknown)

\* locals of the routines a task is in; gate, held and outcome record what the
\* last BlockNetwork call of the task read and did
NoFrame ==
  [blockNow |-> FALSE, RequestCameFromController |-> FALSE,
   outgoingTransmission |-> NoMsg, incomingMessage |-> NoMsg,
   sampled |-> unknown, status |-> FALSE,
   held |-> <<unknown, unknown>>, gate |-> <<"unread", "unread">>,
   outcome |-> "none"]

(* ------------------- checkEmergencyStopButton ------------------------- *)
\* A pin reads 0 when its contact is closed (INPUT_PULLUP, contact to ground).
\* nc and no are the two successive readings <<first, second>> of the normally
\* closed and of the normally opened connection pin; the second reading of a
\* pin is taken only when the first passed, and the normally opened pin is
\* read only when the normally closed one read open twice.

normallyClosedConnectionIsOpened(nc) == nc[1] # 0 /\ nc[2] # 0

normallyOpenedConnectionIsClosed(nc, no) ==
  normallyClosedConnectionIsOpened(nc) /\ no[1] = 0 /\ no[2] = 0

checkEmergencyStopButton(nc, no) ==
  IF normallyClosedConnectionIsOpened(nc) /\ normallyOpenedConnectionIsClosed(nc, no)
  THEN blocked ELSE unblocked

\* the levels a steady button puts on its two pins
SteadyLevels(b) ==
  IF b = "engaged" THEN [nc |-> <<1, 1>>, no |-> <<0, 0>>]
                   ELSE [nc |-> <<0, 0>>, no |-> <<1, 1>>]

(* ------------- setTheRoleOfThisDeviceBasedOnItsWiring ----------------- *)
\* p.cNC, p.cNO, p.sNC, p.sNO: the two successive readings of the Controller's
\* and of the Switchbox's normally closed and normally opened pins.

DebouncedClosed(r) == r[1] = 0 /\ r[2] = 0

\* a variant that counts the normally closed pin only
openControllerCircuts_closedPinOnly(p) == IF DebouncedClosed(p.cNC) THEN 1 ELSE 0

openControllerCircuts(p) ==
  (IF DebouncedClosed(p.cNC) THEN 1 ELSE 0) + (IF DebouncedClosed(p.cNO) THEN 1 ELSE 0)

openSwitchboxCircuts(p) ==
  (IF DebouncedClosed(p.sNC) THEN 1 ELSE 0) + (IF DebouncedClosed(p.sNO) THEN 1 ELSE 0)

\* a variant that sets thisIsTheController whichever input is the closed one
setTheRoleOfThisDeviceBasedOnItsWiring_bothFlags(p, useSwitchbox, flash) ==
  LET totalOpenCircuts == openSwitchboxCircuts(p) + openControllerCircuts(p)
      isSbx == totalOpenCircuts = 1 /\ openControllerCircuts(p) # 1
  IN [thisIsTheController |-> totalOpenCircuts = 1,
      thisIsTheSwitchbox |-> isSbx,
      FlashRateOfTheLED |->
        IF totalOpenCircuts # 1 THEN FlashRateOfTheLEDWhenThereIsAWiringProblem ELSE flash,
      ok |-> totalOpenCircuts = 1]

\* the routine's effect: the two role flags, the flash rate it leaves (0: the
\* one it found) and its return value
setTheRoleOfThisDeviceBasedOnItsWiring(p, useSwitchbox, flash) ==
  LET totalOpenCircuts == openSwitchboxCircuts(p) + openControllerCircuts(p)
      isCtl == totalOpenCircuts = 1 /\ openControllerCircuts(p) = 1
      isSbx == totalOpenCircuts = 1 /\ openControllerCircuts(p) # 1
      mismatch == isSbx /\ ~useSwitchbox
  IN [thisIsTheController |-> isCtl,
      thisIsTheSwitchbox |-> isSbx,
      FlashRateOfTheLED |->
        IF totalOpenCircuts # 1 \/ mismatch
        THEN FlashRateOfTheLEDWhenThereIsAWiringProblem ELSE flash,
      ok |-> (IF mismatch THEN 0 ELSE totalOpenCircuts) = 1]

\* the eight readings of a node wired as the Controller or as the Switchbox
\* whose button is steady; the other role's pins are left unconnected
WiredPins(n, b) ==
  LET own == SteadyLevels(b)
      idle == <<1, 1>>
  IN IF n = "ctl"
     THEN [cNC |-> own.nc, cNO |-> own.no, sNC |-> idle, sNO |-> idle]
     ELSE [cNC |-> idle, cNO |-> idle, sNC |-> own.nc, sNO |-> own.no]

(* ----------------------------- control -------------------------------- *)

Move(n, t, l, st, fr) ==
  /\ pc' = [pc EXCEPT ![n][t] = l]
  /\ stack' = [stack EXCEPT ![n][t] = st]
  /\ frame' = [frame EXCEPT ![n][t] = fr]

Goto(n, t, l) == Move(n, t, l, stack[n][t], frame[n][t])

GotoF(n, t, l, fr) == Move(n, t, l, stack[n][t], fr)

Call(n, t, l, ret, fr) == Move(n, t, l, <<ret>> \o stack[n][t], fr)

\* a routine returns to its caller; the locals end with the callback or with
\* the iteration of loop()
Return(n, t, fr) ==
  LET to == Head(stack[n][t])
  IN Move(n, t, to, Tail(stack[n][t]), IF to \in {"idle", "loop"} THEN NoFrame ELSE fr)

\* both nodes run loop() or the loop that only flashes the LED, no callback
\* runs or is pending, no frame is in flight
Quiet ==
  \A n \in Node : /\ pc[n]["main"] \in {"loop", "flash_forever"} /\ pc[n]["wifi"] = "idle"
                  /\ air[n] = << >> /\ events[n] = << >>

\* The environment acts MaxEnv times, the first time once the boot has settled.
EnvUsed == env.toggles + env.faults + env.expiries
EnvLeft == EnvUsed < MaxEnv /\ (EnvUsed = 0 => Quiet)

(* ---------------------------- scheduling ------------------------------ *)

\* Labels at which a task's next step is taken at once.  Calls, the reading of
\* the pins and the steps on variables of the task alone cannot be told apart
\* from their being taken with the step before; the store of the sampled
\* button follows its reading, and the dispatch of a received frame the
\* frame's arrival, both of which come at any time.  The callbacks' bookkeeping
\* of the flash rate and of the touch-base target is taken with the callback's
\* entry.
ControlLabels ==
  {"setup_check", "setup_act", "setup_provide", "loop_act",
   "anc_entry", "anc_provide", "odr_provide", "cesb_read", "cesb_store",
   "ods_flash", "ods_target", "odr_target", "odr_dispatch"}

\* Labels of the calls of esp_now_send: a task waits there while the radio is
\* full
SendLabels == {"pts_send", "ptc_send", "rts_send", "rtb_send"}

\* Labels at which a task of a node that is run routine by routine rests
RestLabels == {"setup_role", "loop", "idle", "flash_forever"}

\* The Controller's two tasks interleave step by step; the Switchbox runs each
\* iteration of loop() and each callback as a whole.
Coarse == {"sbx"}

\* The WiFi task enters a pending callback at once: the frame could have been
\* resolved that much later.
Urgent(n, t) ==
  \/ /\ IF n \in Coarse THEN pc[n][t] \notin RestLabels ELSE pc[n][t] \in ControlLabels
     /\ ~(pc[n][t] \in SendLabels /\ Len(air[n]) >= MaxAir)
  \/ t = "wifi" /\ pc[n][t] = "idle" /\ events[n] # << >>

NoneUrgent == \A n \in Node : \A t \in Task : ~Urgent(n, t)

\* a task steps when its step is to be taken at once or no task's is; the
\* radio and the environment act when no task's is
Turn(n, t) == Urgent(n, t) \/ NoneUrgent

(* ------------------------------ radio --------------------------------- *)

\* esp_now_send returns ESP_OK: the frame is handed to the radio.  The radio
\* holds MaxAir frames of a node: a further send comes after one is resolved.
SendAccepted(n, m) ==
  /\ mem[n].recvRegistered
  /\ Len(air[n]) < MaxAir
  /\ air' = [air EXCEPT ![n] = Append(@, m)]
  /\ UNCHANGED <<events, env>>

\* esp_now_send returns an error: nothing is sent.  It always does when
\* initializeESPNOW() was not run.
SendRejected(n) ==
  /\ IF mem[n].recvRegistered
     THEN EnvLeft /\ env' = [env EXCEPT !.faults = @ + 1]
     ELSE UNCHANGED env
  /\ UNCHANGED radio

\* the peer acknowledges the frame: it receives it, the sender's send callback
\* reports success
Deliver(n) ==
  /\ NoneUrgent
  /\ air[n] # << >>
  /\ mem[Peer(n)].recvRegistered
  /\ air' = [air EXCEPT ![n] = Tail(@)]
  /\ events' = [events EXCEPT ![Peer(n)] = Append(@, [cb |-> "recv", msg |-> Head(air[n])]),
                              ![n] = Append(@, [cb |-> "sent", ok |-> TRUE])]
  /\ UNCHANGED <<mem, button, tasks, env, pure>>

\* no acknowledgement: the frame is lost, the send callback reports failure
Lose(n) ==
  /\ NoneUrgent
  /\ air[n] # << >>
  /\ ~mem[Peer(n)].recvRegistered \/ EnvLeft
  /\ env' = IF ~mem[Peer(n)].recvRegistered THEN env ELSE [env EXCEPT !.faults = @ + 1]
  /\ air' = [air EXCEPT ![n] = Tail(@)]
  /\ events' = [events EXCEPT ![n] = Append(@, [cb |-> "sent", ok |-> FALSE])]
  /\ UNCHANGED <<mem, button, tasks, pure>>

(* --------------------------- environment ------------------------------ *)

\* the Emergency Stop button of a node is pressed or released.  The pins are
\* read at the start of an iteration of loop(): a change during an iteration is
\* a change after it.
Toggle(n) ==
  /\ NoneUrgent
  /\ EnvLeft
  /\ pc[n]["main"] = "loop"
  /\ button' = [button EXCEPT ![n] = IF @ = "engaged" THEN "released" ELSE "engaged"]
  /\ env' = [env EXCEPT !.toggles = @ + 1]
  /\ UNCHANGED <<mem, tasks, radio, pure>>

\* time passes beyond nextTouchBaseTimeTarget
Expire(n) ==
  /\ NoneUrgent
  /\ EnvLeft
  /\ pc[n]["main"] = "loop"
  /\ ~mem[n].touchBaseDue
  /\ mem' = [mem EXCEPT ![n].touchBaseDue = TRUE]
  /\ env' = [env EXCEPT !.expiries = @ + 1]
  /\ UNCHANGED <<button, tasks, radio, pure>>

(* --------------------------- the sketch ------------------------------- *)

At(n, t, l) == pc[n][t] = l /\ Turn(n, t)

CommsProblem == FlashRateOfTheLEDWhenThereIsACommunicationsProblemBetweenTheControllerAndSwitch

\* the period OnDataRecv and OnDataSent add to millis()
TouchBasePeriod(isController, allIsGood) ==
  (IF allIsGood THEN touchBaseTimePeriodWhenAllIsGood
                ELSE touchBaseTimePeriodWhenThereIsAKnownProblem)
  + (IF isController THEN 0 ELSE touchbaseOffsetsForSwitchbox)

\* the tail shared by the routines that send: esp_now_send, delay(10), and on a
\* rejected send the communications-problem flash rate
SendAndReport(n, t) ==
  /\ \/ /\ SendAccepted(n, frame[n][t].outgoingTransmission)
        /\ UNCHANGED mem
     \/ /\ SendRejected(n)
        /\ mem' = [mem EXCEPT ![n].FlashRateOfTheLED = CommsProblem]
  /\ Return(n, t, [frame[n][t] EXCEPT !.outgoingTransmission = NoMsg])
  /\ UNCHANGED <<button, pure>>

\* a variant without the test of the role
provideTheSwitchboxTheNetworkStatus_anyRole(n, t) ==
  /\ At(n, t, "pts_entry")
  /\ GotoF(n, t, "pts_send",
           [frame[n][t] EXCEPT !.outgoingTransmission =
              transmission_Structure(networkStatusReply, mem[n].NetworkStatus)])
  /\ UNCHANGED <<mem, button, radio, env, pure>>

\* provideTheSwitchboxTheNetworkStatus: the outgoing reply is built from
\* NetworkStatus
provideTheSwitchboxTheNetworkStatus(n, t) ==
  /\ At(n, t, "pts_entry")
  /\ IF ~mem[n].thisIsTheController
     THEN Return(n, t, frame[n][t])
     ELSE GotoF(n, t, "pts_send",
                [frame[n][t] EXCEPT !.outgoingTransmission =
                   transmission_Structure(networkStatusReply, mem[n].NetworkStatus)])
  /\ UNCHANGED <<mem, button, radio, env, pure>>

provideTheSwitchboxTheNetworkStatus_send(n, t) ==
  /\ At(n, t, "pts_send")
  /\ SendAndReport(n, t)

\* checkEmergencyStopButton on a node: the pins of the node's role are read,
\* then the result is stored in the status of that role
checkEmergencyStopButton_read(n, t) ==
  /\ At(n, t, "cesb_read")
  /\ LET p == WiredPins(n, button[n])
         nc == IF mem[n].thisIsTheController THEN p.cNC ELSE p.sNC
         no == IF mem[n].thisIsTheController THEN p.cNO ELSE p.sNO
     IN GotoF(n, t, "cesb_store",
              [frame[n][t] EXCEPT !.sampled = checkEmergencyStopButton(nc, no)])
  /\ UNCHANGED <<mem, button, radio, env, pure>>

\* a variant that stores the blocked result only
checkEmergencyStopButton_store_blockedOnly(n, t) ==
  /\ At(n, t, "cesb_store")
  /\ mem' = IF frame[n][t].sampled # blocked THEN mem
            ELSE IF mem[n].thisIsTheController
            THEN [mem EXCEPT ![n].ControllerSwitchStatus = blocked]
            ELSE [mem EXCEPT ![n].SwitchBoxSwitchStatus = blocked]
  /\ Return(n, t, [frame[n][t] EXCEPT !.sampled = unknown])
  /\ UNCHANGED <<button, radio, env, pure>>

checkEmergencyStopButton_store(n, t) ==
  /\ At(n, t, "cesb_store")
  /\ mem' = IF mem[n].thisIsTheController
            THEN [mem EXCEPT ![n].ControllerSwitchStatus = frame[n][t].sampled]
            ELSE [mem EXCEPT ![n].SwitchBoxSwitchStatus = frame[n][t].sampled]
  /\ Return(n, t, [frame[n][t] EXCEPT !.sampled = unknown])
  /\ UNCHANGED <<button, radio, env, pure>>

\* a variant that replies without checkEmergencyStopButton()
provideTheControllerTheSwitchboxStatus_noSample(n, t) ==
  /\ At(n, t, "ptc_entry")
  /\ IF ~mem[n].thisIsTheSwitchbox
     THEN Return(n, t, frame[n][t])
     ELSE Goto(n, t, "ptc_build")
  /\ UNCHANGED <<mem, button, radio, env, pure>>

\* provideTheControllerTheSwitchboxStatus
provideTheControllerTheSwitchboxStatus(n, t) ==
  /\ At(n, t, "ptc_entry")
  /\ IF ~mem[n].thisIsTheSwitchbox
     THEN Return(n, t, frame[n][t])
     ELSE Call(n, t, "cesb_read", "ptc_build", frame[n][t])
  /\ UNCHANGED <<mem, button, radio, env, pure>>

provideTheControllerTheSwitchboxStatus_build(n, t) ==
  /\ At(n, t, "ptc_build")
  /\ GotoF(n, t, "ptc_send",
           [frame[n][t] EXCEPT !.outgoingTransmission =
              transmission_Structure(switchboxStatusReply, mem[n].SwitchBoxSwitchStatus)])
  /\ UNCHANGED <<mem, button, radio, env, pure>>

provideTheControllerTheSwitchboxStatus_send(n, t) ==
  /\ At(n, t, "ptc_send")
  /\ SendAndReport(n, t)

\* a variant that has the first of the two "ignored" tests only
AlreadyAsRequested_blockOnly(blockNow, ns) == blockNow /\ ns = blocked

\* BlockNetwork's two "ignored" tests: the requested state is the one
\* NetworkStatus has
AlreadyAsRequested(blockNow, ns) ==
  (blockNow /\ ns = blocked) \/ (~blockNow /\ ns = unblocked)

\* a variant without the role test
BlockNetwork_guard_anyRole(n, t) ==
  /\ At(n, t, "bn_entry")
  /\ LET f == [frame[n][t] EXCEPT
                 !.held = <<mem[n].ControllerSwitchStatus, mem[n].SwitchBoxSwitchStatus>>,
                 !.gate = <<"unread", "unread">>,
                 !.outcome = "none"]
     IN IF AlreadyAsRequested(f.blockNow, mem[n].NetworkStatus)
        THEN Return(n, t, [f EXCEPT !.outcome = "ignored"])
        ELSE IF useASwitchbox /\ ~f.blockNow
        THEN GotoF(n, t, "bn_reset", f)
        ELSE GotoF(n, t, "bn_relay", f)
  /\ UNCHANGED <<mem, button, radio, env, pure>>

\* BlockNetwork(blockNow, RequestCameFromController): the role test and the
\* "ignored" tests.  held keeps the two switch statuses found at entry.
BlockNetwork_guard(n, t) ==
  /\ At(n, t, "bn_entry")
  /\ LET f == [frame[n][t] EXCEPT
                 !.held = <<mem[n].ControllerSwitchStatus, mem[n].SwitchBoxSwitchStatus>>,
                 !.gate = <<"unread", "unread">>,
                 !.outcome = "none"]
     IN IF ~mem[n].thisIsTheController
        THEN Return(n, t, [f EXCEPT !.outcome = "refused"])
        ELSE IF AlreadyAsRequested(f.blockNow, mem[n].NetworkStatus)
        THEN Return(n, t, [f EXCEPT !.outcome = "ignored"])
        ELSE IF useASwitchbox /\ ~f.blockNow
        THEN GotoF(n, t, "bn_reset", f)
        ELSE GotoF(n, t, "bn_relay", f)
  /\ UNCHANGED <<mem, button, radio, env, pure>>

\* SwitchBoxSwitchStatus = unknown, then requestTheSwitchboxStatus() when the
\* request came from the Controller
BlockNetwork_reset(n, t) ==
  /\ At(n, t, "bn_reset")
  /\ mem' = [mem EXCEPT ![n].SwitchBoxSwitchStatus = unknown]
  /\ IF frame[n][t].RequestCameFromController
     THEN Call(n, t, "rts_entry", "bn_controller", frame[n][t])
     ELSE Goto(n, t, "bn_controller")
  /\ UNCHANGED <<button, radio, env, pure>>

\* a variant whose denial de-energises the relay
BlockNetwork_checkController_release(n, t) ==
  /\ At(n, t, "bn_controller")
  /\ LET css == mem[n].ControllerSwitchStatus
         f == [frame[n][t] EXCEPT !.gate[1] = css]
     IN IF css = blocked
        THEN /\ Return(n, t, [f EXCEPT !.outcome = "denied"])
             /\ mem' = [mem EXCEPT ![n].relayPin = "LOW"]
        ELSE /\ GotoF(n, t, "bn_switchbox", f)
             /\ UNCHANGED mem
  /\ UNCHANGED <<button, radio, env, pure>>

\* if (ControllerSwitchStatus == blocked) return
BlockNetwork_checkController(n, t) ==
  /\ At(n, t, "bn_controller")
  /\ LET css == mem[n].ControllerSwitchStatus
         f == [frame[n][t] EXCEPT !.gate[1] = css]
     IN IF css = blocked
        THEN Return(n, t, [f EXCEPT !.outcome = "denied"])
        ELSE GotoF(n, t, "bn_switchbox", f)
  /\ UNCHANGED <<mem, button, radio, env, pure>>

\* a variant without the test of SwitchBoxSwitchStatus
BlockNetwork_checkSwitchbox_skipped(n, t) ==
  /\ At(n, t, "bn_switchbox")
  /\ GotoF(n, t, "bn_relay",
           [frame[n][t] EXCEPT !.gate[2] = mem[n].SwitchBoxSwitchStatus])
  /\ UNCHANGED <<mem, button, radio, env, pure>>

\* if (SwitchBoxSwitchStatus == blocked) return
BlockNetwork_checkSwitchbox(n, t) ==
  /\ At(n, t, "bn_switchbox")
  /\ LET sbs == mem[n].SwitchBoxSwitchStatus
         f == [frame[n][t] EXCEPT !.gate[2] = sbs]
     IN IF sbs = blocked
        THEN Return(n, t, [f EXCEPT !.outcome = "denied"])
        ELSE GotoF(n, t, "bn_relay", f)
  /\ UNCHANGED <<mem, button, radio, env, pure>>

\* digitalWrite(controllerRelayConnectionPin, HIGH or LOW)
BlockNetwork_relay(n, t) ==
  /\ At(n, t, "bn_relay")
  /\ mem' = [mem EXCEPT ![n].relayPin = IF frame[n][t].blockNow THEN "HIGH" ELSE "LOW"]
  /\ Goto(n, t, "bn_status")
  /\ UNCHANGED <<button, radio, env, pure>>

\* NetworkStatus = blocked or unblocked
BlockNetwork_status(n, t) ==
  /\ At(n, t, "bn_status")
  /\ mem' = [mem EXCEPT ![n].NetworkStatus =
                          IF frame[n][t].blockNow THEN blocked ELSE unblocked]
  /\ Return(n, t, [frame[n][t] EXCEPT !.outcome = "done"])
  /\ UNCHANGED <<button, radio, env, pure>>

\* requestTheSwitchboxStatus: SwitchBoxSwitchStatus = unknown
requestTheSwitchboxStatus(n, t) ==
  /\ At(n, t, "rts_entry")
  /\ IF ~mem[n].thisIsTheController
     THEN /\ Return(n, t, frame[n][t])
          /\ UNCHANGED mem
     ELSE /\ mem' = [mem EXCEPT ![n].SwitchBoxSwitchStatus = unknown]
          /\ GotoF(n, t, "rts_send",
                   [frame[n][t] EXCEPT !.outgoingTransmission =
                      transmission_Structure(requestSwitchboxStatus, unknown)])
  /\ UNCHANGED <<button, radio, env, pure>>

\* esp_now_send of the request
requestTheSwitchboxStatus_send(n, t) ==
  /\ At(n, t, "rts_send")
  /\ \/ /\ SendAccepted(n, frame[n][t].outgoingTransmission)
        /\ GotoF(n, t, "rts_sent", [frame[n][t] EXCEPT !.outgoingTransmission = NoMsg])
     \/ /\ SendRejected(n)
        /\ GotoF(n, t, "rts_report", [frame[n][t] EXCEPT !.outgoingTransmission = NoMsg])
  /\ UNCHANGED <<mem, button, pure>>

\* delay(10); if (packedSentSuccesfully)
requestTheSwitchboxStatus_sent(n, t) ==
  /\ At(n, t, "rts_sent")
  /\ Goto(n, t, IF mem[n].packedSentSuccesfully THEN "rts_wait" ELSE "rts_report")
  /\ UNCHANGED <<mem, button, radio, env, pure>>

\* the wait loop ends when SwitchBoxSwitchStatus is no longer unknown or
\* when millis() reaches the timeout
requestTheSwitchboxStatus_wait(n, t) ==
  /\ At(n, t, "rts_wait")
  /\ \/ /\ mem[n].SwitchBoxSwitchStatus # unknown
        /\ UNCHANGED env
     \/ /\ mem[n].SwitchBoxSwitchStatus = unknown
        /\ EnvLeft
        /\ env' = [env EXCEPT !.expiries = @ + 1]
  /\ Goto(n, t, "rts_report")
  /\ UNCHANGED <<mem, button, radio, pure>>

\* a variant of the report that leaves the flash rate as it was
requestTheSwitchboxStatus_report_silent(n, t) ==
  /\ At(n, t, "rts_report")
  /\ Return(n, t, frame[n][t])
  /\ UNCHANGED <<mem, button, radio, env, pure>>

\* the report; an unknown status sets the communications-problem flash rate
requestTheSwitchboxStatus_report(n, t) ==
  /\ At(n, t, "rts_report")
  /\ mem' = IF mem[n].SwitchBoxSwitchStatus = unknown
            THEN [mem EXCEPT ![n].FlashRateOfTheLED = CommsProblem]
            ELSE mem
  /\ Return(n, t, frame[n][t])
  /\ UNCHANGED <<button, radio, env, pure>>

\* a variant that does not note the status it acts on
requestANetworkChangeAsNeeded_forgetful(n, t) ==
  /\ At(n, t, "rnc_entry")
  /\ IF mem[n].thisIsTheSwitchbox
        /\ mem[n].SwitchBoxSwitchStatus # mem[n].lastSwitchBoxSwitchStatus
     THEN Goto(n, t, "rtb_entry")
     ELSE Return(n, t, frame[n][t])
  /\ UNCHANGED <<mem, button, radio, env, pure>>

\* requestANetworkChangeAsNeeded: the status is compared with, and copied to,
\* lastSwitchBoxSwitchStatus
requestANetworkChangeAsNeeded(n, t) ==
  /\ At(n, t, "rnc_entry")
  /\ IF mem[n].thisIsTheSwitchbox
        /\ mem[n].SwitchBoxSwitchStatus # mem[n].lastSwitchBoxSwitchStatus
     THEN /\ mem' = [mem EXCEPT ![n].lastSwitchBoxSwitchStatus =
                                  mem[n].SwitchBoxSwitchStatus]
          /\ Goto(n, t, "rtb_entry")
     ELSE /\ Return(n, t, frame[n][t])
          /\ UNCHANGED mem
  /\ UNCHANGED <<button, radio, env, pure>>

\* the status is read again to choose the request, which
\* requestToBlockOrUnblockNetwork builds
requestToBlockOrUnblockNetwork(n, t) ==
  /\ At(n, t, "rtb_entry")
  /\ LET networkShouldBeBlocked == mem[n].SwitchBoxSwitchStatus = blocked
     IN IF ~mem[n].thisIsTheSwitchbox
        THEN Return(n, t, frame[n][t])
        ELSE GotoF(n, t, "rtb_send",
                   [frame[n][t] EXCEPT !.outgoingTransmission =
                      transmission_Structure(
                        IF networkShouldBeBlocked THEN requestControllerBlockNetwork
                                                  ELSE requestControllerUnblockNetwork,
                        unknown)])
  /\ UNCHANGED <<mem, button, radio, env, pure>>

requestToBlockOrUnblockNetwork_send(n, t) ==
  /\ At(n, t, "rtb_send")
  /\ SendAndReport(n, t)

\* actionANetworkChangeAsNeeded: on a change of ControllerSwitchStatus,
\* BlockNetwork(ControllerSwitchStatus == blocked, true)
actionANetworkChangeAsNeeded(n, t) ==
  /\ At(n, t, "anc_entry")
  /\ IF mem[n].thisIsTheController
        /\ mem[n].ControllerSwitchStatus # mem[n].lastControllerSwitchStatus
     THEN /\ mem' = [mem EXCEPT ![n].lastControllerSwitchStatus =
                                  mem[n].ControllerSwitchStatus]
          /\ Call(n, t, "bn_entry", "anc_provide",
                  [frame[n][t] EXCEPT
                     !.blockNow = (mem[n].ControllerSwitchStatus = blocked),
                     !.RequestCameFromController = TRUE])
     ELSE /\ Return(n, t, frame[n][t])
          /\ UNCHANGED mem
  /\ UNCHANGED <<button, radio, env, pure>>

\* then provideTheSwitchboxTheNetworkStatus()
actionANetworkChangeAsNeeded_provide(n, t) ==
  /\ At(n, t, "anc_provide")
  /\ GotoF(n, t, "pts_entry",
           [NoFrame EXCEPT !.incomingMessage = frame[n][t].incomingMessage])
  /\ UNCHANGED <<mem, button, radio, env, pure>>

(* ---------------------------- callbacks ------------------------------- *)

\* OnDataRecv, entered by the WiFi task for a received frame:
\* FlashRateOfTheLED = 0
OnDataRecv(n) ==
  /\ At(n, "wifi", "idle")
  /\ events[n] # << >>
  /\ Head(events[n]).cb = "recv"
  /\ events' = [events EXCEPT ![n] = Tail(@)]
  /\ mem' = [mem EXCEPT ![n].FlashRateOfTheLED = 0]
  /\ Move(n, "wifi", "odr_target", <<"idle">>,
          [NoFrame EXCEPT !.incomingMessage = Head(events[n]).msg])
  /\ UNCHANGED <<button, air, env, pure>>

\* a variant that leaves nextTouchBaseTimeTarget as it was
OnDataRecv_target_keeps(n) ==
  /\ At(n, "wifi", "odr_target")
  /\ Goto(n, "wifi", "odr_dispatch")
  /\ UNCHANGED <<mem, button, radio, env, pure>>

\* nextTouchBaseTimeTarget = millis() + the good period (+ offset)
OnDataRecv_target(n) ==
  /\ At(n, "wifi", "odr_target")
  /\ mem' = [mem EXCEPT
               ![n].nextTouchBaseTimeTarget =
                  TouchBasePeriod(mem[n].thisIsTheController, TRUE),
               ![n].touchBaseDue = FALSE]
  /\ Goto(n, "wifi", "odr_dispatch")
  /\ UNCHANGED <<button, radio, env, pure>>

\* a variant that answers a status reply with the own status
OnDataRecv_dispatch_answersReplies(n) ==
  /\ At(n, "wifi", "odr_dispatch")
  /\ LET m == frame[n]["wifi"].incomingMessage
         f == frame[n]["wifi"]
     IN IF mem[n].thisIsTheController
        THEN CASE m.transmission = requestNetworkStatus ->
                    /\ Goto(n, "wifi", "pts_entry")
                    /\ UNCHANGED mem
               [] m.transmission = switchboxStatusReply ->
                    /\ mem' = [mem EXCEPT ![n].SwitchBoxSwitchStatus = m.status]
                    /\ Goto(n, "wifi", "pts_entry")
               [] m.transmission = requestControllerBlockNetwork ->
                    /\ mem' = [mem EXCEPT ![n].SwitchBoxSwitchStatus = blocked]
                    /\ Call(n, "wifi", "bn_entry", "odr_provide",
                            [f EXCEPT !.blockNow = TRUE,
                                      !.RequestCameFromController = FALSE])
               [] m.transmission = requestControllerUnblockNetwork ->
                    /\ mem' = [mem EXCEPT ![n].SwitchBoxSwitchStatus = unblocked]
                    /\ Call(n, "wifi", "bn_entry", "odr_provide",
                            [f EXCEPT !.blockNow = FALSE,
                                      !.RequestCameFromController = FALSE])
               [] OTHER ->
                    /\ Goto(n, "wifi", "odr_error")
                    /\ UNCHANGED mem
        ELSE CASE m.transmission = networkStatusReply ->
                    /\ mem' = [mem EXCEPT ![n].NetworkStatus = m.status]
                    /\ Goto(n, "wifi", "ptc_entry")
               [] m.transmission = requestSwitchboxStatus ->
                    /\ Goto(n, "wifi", "ptc_entry")
                    /\ UNCHANGED mem
               [] OTHER ->
                    /\ Goto(n, "wifi", "odr_error")
                    /\ UNCHANGED mem
  /\ UNCHANGED <<button, radio, env, pure>>

\* the branch of the received transmission, up to its first call
OnDataRecv_dispatch(n) ==
  /\ At(n, "wifi", "odr_dispatch")
  /\ LET m == frame[n]["wifi"].incomingMessage
         f == frame[n]["wifi"]
     IN IF mem[n].thisIsTheController
        THEN CASE m.transmission = requestNetworkStatus ->
                    /\ Goto(n, "wifi", "pts_entry")
                    /\ UNCHANGED mem
               [] m.transmission = switchboxStatusReply ->
                    /\ mem' = [mem EXCEPT ![n].SwitchBoxSwitchStatus = m.status]
                    /\ Return(n, "wifi", f)
               [] m.transmission = requestControllerBlockNetwork ->
                    /\ mem' = [mem EXCEPT ![n].SwitchBoxSwitchStatus = blocked]
                    /\ Call(n, "wifi", "bn_entry", "odr_provide",
                            [f EXCEPT !.blockNow = TRUE,
                                      !.RequestCameFromController = FALSE])
               [] m.transmission = requestControllerUnblockNetwork ->
                    /\ mem' = [mem EXCEPT ![n].SwitchBoxSwitchStatus = unblocked]
                    /\ Call(n, "wifi", "bn_entry", "odr_provide",
                            [f EXCEPT !.blockNow = FALSE,
                                      !.RequestCameFromController = FALSE])
               [] OTHER ->
                    /\ Goto(n, "wifi", "odr_error")
                    /\ UNCHANGED mem
        ELSE CASE m.transmission = networkStatusReply ->
                    /\ mem' = [mem EXCEPT ![n].NetworkStatus = m.status]
                    /\ Return(n, "wifi", f)
               [] m.transmission = requestSwitchboxStatus ->
                    /\ Goto(n, "wifi", "ptc_entry")
                    /\ UNCHANGED mem
               [] OTHER ->
                    /\ Goto(n, "wifi", "odr_error")
                    /\ UNCHANGED mem
  /\ UNCHANGED <<button, radio, env, pure>>

\* provideTheSwitchboxTheNetworkStatus() after BlockNetwork returned
OnDataRecv_provide(n) ==
  /\ At(n, "wifi", "odr_provide")
  /\ GotoF(n, "wifi", "pts_entry",
           [NoFrame EXCEPT !.incomingMessage = frame[n]["wifi"].incomingMessage])
  /\ UNCHANGED <<mem, button, radio, env, pure>>

\* an unknown request: the communications-problem flash rate
OnDataRecv_error(n) ==
  /\ At(n, "wifi", "odr_error")
  /\ mem' = [mem EXCEPT ![n].FlashRateOfTheLED = CommsProblem]
  /\ Return(n, "wifi", frame[n]["wifi"])
  /\ UNCHANGED <<button, radio, env, pure>>

\* OnDataSent, entered by the WiFi task for a completed send:
\* packedSentSuccesfully = (status == ESP_NOW_SEND_SUCCESS)
OnDataSent(n) ==
  /\ At(n, "wifi", "idle")
  /\ events[n] # << >>
  /\ Head(events[n]).cb = "sent"
  /\ events' = [events EXCEPT ![n] = Tail(@)]
  /\ mem' = [mem EXCEPT ![n].packedSentSuccesfully = Head(events[n]).ok]
  /\ Move(n, "wifi", "ods_flash", <<"idle">>,
          [NoFrame EXCEPT !.status = Head(events[n]).ok])
  /\ UNCHANGED <<button, air, env, pure>>

\* FlashRateOfTheLED = 0 or the communications-problem rate
OnDataSent_flash(n) ==
  /\ At(n, "wifi", "ods_flash")
  /\ mem' = [mem EXCEPT ![n].FlashRateOfTheLED =
                          IF mem[n].packedSentSuccesfully THEN 0 ELSE CommsProblem]
  /\ Goto(n, "wifi", "ods_target")
  /\ UNCHANGED <<button, radio, env, pure>>

\* nextTouchBaseTimeTarget = millis() + the good or the known-problem period
OnDataSent_target(n) ==
  /\ At(n, "wifi", "ods_target")
  /\ mem' = [mem EXCEPT
               ![n].nextTouchBaseTimeTarget =
                  TouchBasePeriod(mem[n].thisIsTheController,
                                  frame[n]["wifi"].status),
               ![n].touchBaseDue = FALSE]
  /\ Return(n, "wifi", frame[n]["wifi"])
  /\ UNCHANGED <<button, radio, env, pure>>

(* ------------------------- setup() and loop() ------------------------- *)

\* the readings setup() finds on the four pins of a node: those of its wiring
\* and button, or, in the boots with a wiring fault, the ones drawn for it
BootPins(n) == IF probe.at = "boot" THEN pins[n] ELSE WiredPins(n, button[n])

\* a variant that goes on to initializeESPNOW() whatever the routine returns
setup_role_goesOn(n) ==
  /\ At(n, "main", "setup_role")
  /\ LET r == setTheRoleOfThisDeviceBasedOnItsWiring(
                BootPins(n), useASwitchbox, mem[n].FlashRateOfTheLED)
     IN /\ mem' = [mem EXCEPT ![n].thisIsTheController = r.thisIsTheController,
                              ![n].thisIsTheSwitchbox = r.thisIsTheSwitchbox,
                              ![n].FlashRateOfTheLED = r.FlashRateOfTheLED]
        /\ Goto(n, "main", "setup_espnow")
  /\ UNCHANGED <<button, radio, env, pure>>

\* setup(): setTheRoleOfThisDeviceBasedOnItsWiring(); a wiring problem ends in
\* the loop that only flashes the LED
setup_role(n) ==
  /\ At(n, "main", "setup_role")
  /\ LET r == setTheRoleOfThisDeviceBasedOnItsWiring(
                BootPins(n), useASwitchbox, mem[n].FlashRateOfTheLED)
     IN /\ mem' = [mem EXCEPT ![n].thisIsTheController = r.thisIsTheController,
                              ![n].thisIsTheSwitchbox = r.thisIsTheSwitchbox,
                              ![n].FlashRateOfTheLED = r.FlashRateOfTheLED]
        /\ Goto(n, "main",
                IF ~r.ok THEN "flash_forever"
                ELSE IF r.thisIsTheController /\ ~useASwitchbox THEN "setup_check"
                ELSE "setup_espnow")
  /\ UNCHANGED <<button, radio, env, pure>>

\* initializeESPNOW() succeeds: both callbacks are registered.  The
\* Controller goes on with requestTheSwitchboxStatus().
initializeESPNOW_ok(n) ==
  /\ At(n, "main", "setup_espnow")
  /\ mem' = [mem EXCEPT ![n].recvRegistered = TRUE]
  /\ IF mem[n].thisIsTheController
     THEN Call(n, "main", "rts_entry", "setup_check", frame[n]["main"])
     ELSE Goto(n, "main", "setup_check")
  /\ UNCHANGED <<button, radio, env, pure>>

\* initializeESPNOW() fails: esp_now_init() failed (the flash rate is set) or
\* esp_now_add_peer() failed (it is not)
initializeESPNOW_failed(n) ==
  /\ At(n, "main", "setup_espnow")
  /\ \/ mem' = [mem EXCEPT ![n].FlashRateOfTheLED =
                             FlashRateOfTheLEDWhenTheESPNOWFailedToInitialize]
     \/ UNCHANGED mem
  /\ Goto(n, "main", "flash_forever")
  /\ UNCHANGED <<button, radio, env, pure>>

\* checkEmergencyStopButton() of setup()
setup_check(n) ==
  /\ At(n, "main", "setup_check")
  /\ Call(n, "main", "cesb_read", "setup_act", frame[n]["main"])
  /\ UNCHANGED <<mem, button, radio, env, pure>>

\* actionANetworkChangeAsNeeded() or requestANetworkChangeAsNeeded() of setup()
setup_act(n) ==
  /\ At(n, "main", "setup_act")
  /\ IF mem[n].thisIsTheController
     THEN Call(n, "main", "anc_entry",
               IF useASwitchbox THEN "setup_provide" ELSE "loop", frame[n]["main"])
     ELSE Call(n, "main", "rnc_entry", "loop", frame[n]["main"])
  /\ UNCHANGED <<mem, button, radio, env, pure>>

\* provideTheSwitchboxTheNetworkStatus() that ends the Controller's setup()
setup_provide(n) ==
  /\ At(n, "main", "setup_provide")
  /\ Call(n, "main", "pts_entry", "loop", frame[n]["main"])
  /\ UNCHANGED <<mem, button, radio, env, pure>>

\* An iteration of loop() that finds the button as the status of the node's
\* role has it, that status as the last one acted on, and the touch-base target
\* not reached, changes nothing.
IdleIteration(n) ==
  LET p == WiredPins(n, button[n])
      sampled == IF mem[n].thisIsTheController
                 THEN checkEmergencyStopButton(p.cNC, p.cNO)
                 ELSE checkEmergencyStopButton(p.sNC, p.sNO)
  IN /\ ~mem[n].touchBaseDue
     /\ IF mem[n].thisIsTheController
        THEN /\ sampled = mem[n].ControllerSwitchStatus
             /\ sampled = mem[n].lastControllerSwitchStatus
        ELSE /\ sampled = mem[n].SwitchBoxSwitchStatus
             /\ sampled = mem[n].lastSwitchBoxSwitchStatus

\* loop(): checkEmergencyStopButton().  The idle iterations are the stuttering
\* steps.
loop(n) ==
  /\ At(n, "main", "loop")
  /\ ~IdleIteration(n)
  /\ Call(n, "main", "cesb_read", "loop_act", frame[n]["main"])
  /\ UNCHANGED <<mem, button, radio, env, pure>>

\* loop(): actionANetworkChangeAsNeeded() or requestANetworkChangeAsNeeded()
loop_act(n) ==
  /\ At(n, "main", "loop_act")
  /\ Call(n, "main", IF mem[n].thisIsTheController THEN "anc_entry" ELSE "rnc_entry",
          "loop_periodic", frame[n]["main"])
  /\ UNCHANGED <<mem, button, radio, env, pure>>

\* periodicCheckToEnsureCommunicationsAreOK(): when millis() has passed the
\* target, the target is moved two seconds ahead and the status is sent
periodicCheckToEnsureCommunicationsAreOK(n) ==
  /\ At(n, "main", "loop_periodic")
  /\ IF ((mem[n].thisIsTheController /\ useASwitchbox) \/ mem[n].thisIsTheSwitchbox)
        /\ mem[n].touchBaseDue
     THEN /\ mem' = [mem EXCEPT ![n].nextTouchBaseTimeTarget = touchBaseGuardPeriod,
                                ![n].touchBaseDue = FALSE]
          /\ Call(n, "main",
                  IF mem[n].thisIsTheController THEN "pts_entry" ELSE "ptc_entry",
                  "loop", frame[n]["main"])
     ELSE /\ Move(n, "main", "loop", stack[n]["main"], NoFrame)
          /\ UNCHANGED mem
  /\ UNCHANGED <<button, radio, env, pure>>

(* --------------------------- specification ---------------------------- *)

NoPins == [nc |-> <<0, 0>>, no |-> <<0, 0>>, steady |-> "released"]
NoProbe ==
  [at |-> "off", sketch |-> "none",
   normallyClosedConnectionIsOpened |-> FALSE,
   normallyOpenedConnectionIsClosed |-> FALSE,
   lastnetworkBlockingIsActive |-> FALSE,
   polls |-> 0]

Init ==
  /\ mem = [n \in Node |-> Globals]
  /\ button \in [Node -> {"released", "engaged"}]
  /\ pc = [n \in Node |-> [t \in Task |-> IF t = "main" THEN "setup_role" ELSE "idle"]]
  /\ stack = [n \in Node |-> [t \in Task |-> << >>]]
  /\ frame = [n \in Node |-> [t \in Task |-> NoFrame]]
  /\ air = [n \in Node |-> << >>]
  /\ events = [n \in Node |-> << >>]
  /\ env = [toggles |-> 0, faults |-> 0, expiries |-> 0]
  /\ networkBlockingIsActive = FALSE
  /\ pins = NoPins
  /\ probe = NoProbe

Routine(n, t) ==
  \/ provideTheSwitchboxTheNetworkStatus(n, t)
  \/ provideTheSwitchboxTheNetworkStatus_send(n, t)
  \/ checkEmergencyStopButton_read(n, t)
  \/ checkEmergencyStopButton_store(n, t)
  \/ provideTheControllerTheSwitchboxStatus(n, t)
  \/ provideTheControllerTheSwitchboxStatus_build(n, t)
  \/ provideTheControllerTheSwitchboxStatus_send(n, t)
  \/ BlockNetwork_guard(n, t)
  \/ BlockNetwork_reset(n, t)
  \/ BlockNetwork_checkController(n, t)
  \/ BlockNetwork_checkSwitchbox(n, t)
  \/ BlockNetwork_relay(n, t)
  \/ BlockNetwork_status(n, t)
  \/ requestTheSwitchboxStatus(n, t)
  \/ requestTheSwitchboxStatus_send(n, t)
  \/ requestTheSwitchboxStatus_sent(n, t)
  \/ requestTheSwitchboxStatus_wait(n, t)
  \/ requestTheSwitchboxStatus_report(n, t)
  \/ requestANetworkChangeAsNeeded(n, t)
  \/ requestToBlockOrUnblockNetwork(n, t)
  \/ requestToBlockOrUnblockNetwork_send(n, t)
  \/ actionANetworkChangeAsNeeded(n, t)
  \/ actionANetworkChangeAsNeeded_provide(n, t)

Callback(n) ==
  \/ OnDataRecv(n)
  \/ OnDataRecv_target(n)
  \/ OnDataRecv_dispatch(n)
  \/ OnDataRecv_provide(n)
  \/ OnDataSent(n)
  \/ OnDataSent_flash(n)
  \/ OnDataSent_target(n)

Sketch(n) ==
  \/ setup_role(n)
  \/ initializeESPNOW_ok(n)
  \/ setup_check(n)
  \/ setup_act(n)
  \/ setup_provide(n)
  \/ loop(n)
  \/ loop_act(n)
  \/ periodicCheckToEnsureCommunicationsAreOK(n)

Next ==
  \/ \E n \in Node : \E t \in Task : Routine(n, t)
  \/ \E n \in Node : Callback(n)
  \/ \E n \in Node : Sketch(n)
  \/ \E n \in Node : Deliver(n)
  \/ \E n \in Node : Lose(n)
  \/ \E n \in Node : Toggle(n)
  \/ \E n \in Node : Expire(n)

Spec == Init /\ [][Next]_vars

(* ------------- checkEmergencyStopButton, reading by reading ------------ *)
\* The routine is run on its own on a node of each kind: the Controller
\* ("ctl"), the Switchbox ("sbx"), and the device of the OPNsense sketch
\* ("opnsense"), whose variant stores the result in networkBlockingIsActive.
\* pins holds the readings its digitalRead calls will return and the steady
\* position of the button they were taken at.

Level == {0, 1}

Polled == {"ctl", "sbx", "opnsense"}

\* the globals of a node that has found its role
Booted(n) ==
  [Globals EXCEPT !.thisIsTheController = (n = "ctl"),
                  !.thisIsTheSwitchbox = (n = "sbx")]

InitButton ==
  /\ mem = [n \in Node |-> Booted(n)]
  /\ button = [n \in Node |-> "released"]
  /\ pc = [n \in Node |-> [t \in Task |-> IF t = "main" THEN "loop" ELSE "idle"]]
  /\ stack = [n \in Node |-> [t \in Task |-> << >>]]
  /\ frame = [n \in Node |-> [t \in Task |-> NoFrame]]
  /\ air = [n \in Node |-> << >>]
  /\ events = [n \in Node |-> << >>]
  /\ env = [toggles |-> 0, faults |-> 0, expiries |-> 0]
  /\ networkBlockingIsActive = FALSE
  /\ pins = NoPins
  /\ probe \in {[NoProbe EXCEPT !.at = "rest", !.sketch = k] : k \in Polled}

ProbeTo(l) == probe' = [probe EXCEPT !.at = l]

\* loop() calls checkEmergencyStopButton(): the two flags start false; the
\* readings of this call are drawn
checkEmergencyStopButton_call ==
  /\ probe.at = "rest"
  /\ probe.polls < MaxPolls
  /\ pins' \in [nc : Level \X Level, no : Level \X Level,
                steady : {"released", "engaged"}]
  /\ probe' = [probe EXCEPT !.at = "first",
                            !.normallyClosedConnectionIsOpened = FALSE,
                            !.normallyOpenedConnectionIsClosed = FALSE]
  /\ UNCHANGED <<mem, button, tasks, radio, env, networkBlockingIsActive>>

\* if (digitalRead(normallyClosedConnectionPin) != 0)
checkEmergencyStopButton_firstTest ==
  /\ probe.at = "first"
  /\ ProbeTo(IF pins.nc[1] # 0 THEN "firstAgain" ELSE "result")
  /\ UNCHANGED <<mem, button, tasks, radio, env, networkBlockingIsActive, pins>>

\* a variant that does not read the pin again after the delay
checkEmergencyStopButton_firstTestOnce ==
  /\ probe.at = "firstAgain"
  /\ probe' = [probe EXCEPT !.at = "second",
                            !.normallyClosedConnectionIsOpened = TRUE]
  /\ UNCHANGED <<mem, button, tasks, radio, env, networkBlockingIsActive, pins>>

\* delay(10); if (digitalRead(normallyClosedConnectionPin) != 0)
\*   normallyClosedConnectionIsOpened = true
checkEmergencyStopButton_firstTestAgain ==
  /\ probe.at = "firstAgain"
  /\ probe' = IF pins.nc[2] # 0
              THEN [probe EXCEPT !.at = "second",
                                 !.normallyClosedConnectionIsOpened = TRUE]
              ELSE [probe EXCEPT !.at = "result"]
  /\ UNCHANGED <<mem, button, tasks, radio, env, networkBlockingIsActive, pins>>

\* if (digitalRead(normallyOpenedConnectionPin) == 0)
checkEmergencyStopButton_secondTest ==
  /\ probe.at = "second"
  /\ ProbeTo(IF pins.no[1] = 0 THEN "secondAgain" ELSE "result")
  /\ UNCHANGED <<mem, button, tasks, radio, env, networkBlockingIsActive, pins>>

\* a variant whose second test passes whatever the pin reads after the delay
checkEmergencyStopButton_secondTestOnce ==
  /\ probe.at = "secondAgain"
  /\ probe' = [probe EXCEPT !.at = "result",
                            !.normallyOpenedConnectionIsClosed = TRUE]
  /\ UNCHANGED <<mem, button, tasks, radio, env, networkBlockingIsActive, pins>>

\* delay(10); if (digitalRead(normallyOpenedConnectionPin) == 0)
\*   normallyOpenedConnectionIsClosed = true
checkEmergencyStopButton_secondTestAgain ==
  /\ probe.at = "secondAgain"
  /\ probe' = [probe EXCEPT !.at = "result",
                            !.normallyOpenedConnectionIsClosed = (pins.no[2] = 0)]
  /\ UNCHANGED <<mem, button, tasks, radio, env, networkBlockingIsActive, pins>>

\* the result is stored: in the status of the node's role, or in
\* networkBlockingIsActive, after which activateNetworkBlockingAsRequired()
\* notes the flag it has acted on
checkEmergencyStopButton_result ==
  /\ probe.at = "result"
  /\ LET both == probe.normallyClosedConnectionIsOpened
                   /\ probe.normallyOpenedConnectionIsClosed
         status == IF both THEN blocked ELSE unblocked
     IN CASE probe.sketch = "ctl" ->
               /\ mem' = [mem EXCEPT !["ctl"].ControllerSwitchStatus = status]
               /\ probe' = [probe EXCEPT !.at = "rest", !.polls = @ + 1]
               /\ UNCHANGED networkBlockingIsActive
          [] probe.sketch = "sbx" ->
               /\ mem' = [mem EXCEPT !["sbx"].SwitchBoxSwitchStatus = status]
               /\ probe' = [probe EXCEPT !.at = "rest", !.polls = @ + 1]
               /\ UNCHANGED networkBlockingIsActive
          [] OTHER ->
               /\ networkBlockingIsActive' = both
               /\ probe' = [probe EXCEPT !.at = "rest", !.polls = @ + 1,
                                         !.lastnetworkBlockingIsActive = both]
               /\ UNCHANGED mem
  /\ UNCHANGED <<button, tasks, radio, env, pins>>

NextButton ==
  \/ checkEmergencyStopButton_call
  \/ checkEmergencyStopButton_firstTest
  \/ checkEmergencyStopButton_firstTestAgain
  \/ checkEmergencyStopButton_secondTest
  \/ checkEmergencyStopButton_secondTestAgain
  \/ checkEmergencyStopButton_result

SpecButton == InitButton /\ [][NextButton]_vars

\* the status the routine has stored on the node it ran on
OwnStatus ==
  CASE probe.sketch = "ctl" -> mem["ctl"].ControllerSwitchStatus
    [] probe.sketch = "sbx" -> mem["sbx"].SwitchBoxSwitchStatus
    [] OTHER -> IF networkBlockingIsActive THEN blocked ELSE unblocked

\* the routine has stored the result of the readings in pins
Stored == probe.at = "rest" /\ probe.polls > 0

\* C8: once checkEmergencyStopButton has stored its result, the node's own
\* status is blocked if the normally closed pin read open (not 0) on both of
\* its readings and the normally opened pin read closed (0) on both of its
\* readings, and unblocked in every other case; it is the result the sketch is
\* given in the specification of the two nodes.
C8_BlockedIffBothTestsPass ==
  Stored =>
    /\ OwnStatus = IF /\ pins.nc[1] = 1 /\ pins.nc[2] = 1
                      /\ pins.no[1] = 0 /\ pins.no[2] = 0
                   THEN blocked ELSE unblocked
    /\ OwnStatus = checkEmergencyStopButton(pins.nc, pins.no)

\* the normally opened contact is stuck closed and the normally closed contact
\* reads closed: the result is unblocked
C8_Witness ==
  /\ Stored
  /\ pins.no = <<0, 0>>
  /\ pins.nc = <<0, 0>>
  /\ OwnStatus = unblocked

\* the readings that differ from the levels the steady button gives
Transients ==
  LET s == SteadyLevels(pins.steady)
  IN {i \in 1..2 : pins.nc[i] # s.nc[i]} \X {"nc"}
       \cup {i \in 1..2 : pins.no[i] # s.no[i]} \X {"no"}

\* C9, as stated: with at most one reading that differs from the button's
\* steady levels, the stored result is unblocked for a released button and
\* blocked for an engaged one.
C9_TransientNeverFlips ==
  (Stored /\ Cardinality(Transients) <= 1) =>
    OwnStatus = IF pins.steady = "engaged" THEN blocked ELSE unblocked

\* C9, amended: with at most one differing reading a released button gives
\* unblocked; an engaged button gives blocked when no reading differs and
\* unblocked when exactly one of the four does.
C9_TransientNeverBlocks ==
  Stored =>
    /\ (pins.steady = "released" /\ Cardinality(Transients) <= 1)
         => OwnStatus = unblocked
    /\ (pins.steady = "engaged" /\ Cardinality(Transients) = 0)
         => OwnStatus = blocked
    /\ (pins.steady = "engaged" /\ Cardinality(Transients) = 1)
         => OwnStatus = unblocked

\* the button is engaged and the second reading of the normally closed pin
\* alone differs: the result is unblocked
C9_Witness ==
  /\ Stored
  /\ pins.steady = "engaged"
  /\ Transients = {<<2, "nc">>}
  /\ OwnStatus = unblocked

(* --------- setTheRoleOfThisDeviceBasedOnItsWiring, on its own ---------- *)
\* pins holds the two readings of each of the four pins; probe.useASwitchbox
\* is the build's flag.

RolePins == [cNC : Level \X Level, cNO : Level \X Level,
             sNC : Level \X Level, sNO : Level \X Level]

InitRole ==
  /\ mem = [n \in Node |-> Globals]
  /\ button = [n \in Node |-> "released"]
  /\ pc = [n \in Node |-> [t \in Task |-> IF t = "main" THEN "setup_role" ELSE "idle"]]
  /\ stack = [n \in Node |-> [t \in Task |-> << >>]]
  /\ frame = [n \in Node |-> [t \in Task |-> NoFrame]]
  /\ air = [n \in Node |-> << >>]
  /\ events = [n \in Node |-> << >>]
  /\ env = [toggles |-> 0, faults |-> 0, expiries |-> 0]
  /\ networkBlockingIsActive = FALSE
  /\ pins \in RolePins
  /\ probe \in {[at |-> "role", useASwitchbox |-> b, ok |-> FALSE] : b \in BOOLEAN}

\* setup() calls the routine on the device
setTheRoleOfThisDeviceBasedOnItsWiring_call ==
  /\ probe.at = "role"
  /\ LET r == setTheRoleOfThisDeviceBasedOnItsWiring(
                pins, probe.useASwitchbox, mem["ctl"].FlashRateOfTheLED)
     IN /\ mem' = [mem EXCEPT !["ctl"].thisIsTheController = r.thisIsTheController,
                              !["ctl"].thisIsTheSwitchbox = r.thisIsTheSwitchbox,
                              !["ctl"].FlashRateOfTheLED = r.FlashRateOfTheLED]
        /\ probe' = [probe EXCEPT !.at = "returned", !.ok = r.ok]
  /\ UNCHANGED <<button, tasks, radio, env, networkBlockingIsActive, pins>>

NextRole == setTheRoleOfThisDeviceBasedOnItsWiring_call

SpecRole == InitRole /\ [][NextRole]_vars

\* the inputs that read closed on both of their readings
ClosedInputs == {k \in {"cNC", "cNO", "sNC", "sNO"} : pins[k] = <<0, 0>>}

\* C10: the routine returns true exactly when one input reads closed and that
\* input is not a Switchbox input of a build without Switchbox support; when
\* it returns true the device is the Controller if the closed input is a
\* Controller input and the Switchbox otherwise, never both.
C10_RoleByTheOneClosedInput ==
  probe.at = "returned" =>
    LET one == Cardinality(ClosedInputs) = 1
        onController == ClosedInputs \subseteq {"cNC", "cNO"}
    IN /\ probe.ok <=> (one /\ ~(~onController /\ ~probe.useASwitchbox))
       /\ probe.ok =>
            /\ mem["ctl"].thisIsTheController <=> onController
            /\ mem["ctl"].thisIsTheSwitchbox <=> ~onController

\* a build without Switchbox support on a device whose one closed input is a
\* Switchbox input: the routine has returned false
C10_Witness ==
  /\ probe.at = "returned"
  /\ ClosedInputs = {"sNO"}
  /\ ~probe.useASwitchbox
  /\ ~probe.ok

(* ------------------------ the actuation gate --------------------------- *)

\* the labels BlockNetwork returns to
ReturnSites == {"anc_provide", "odr_provide"}

\* task t of the Controller has passed BlockNetwork's tests for an unblock and
\* is about to write the relay or NetworkStatus
Unblocking(t) ==
  /\ pc["ctl"][t] \in {"bn_relay", "bn_status"}
  /\ ~frame["ctl"][t].blockNow

\* task t of the Controller is back from BlockNetwork
Returned(t, how) ==
  /\ pc["ctl"][t] \in ReturnSites
  /\ frame["ctl"][t].outcome \in how

Energised == mem["ctl"].relayPin = "HIGH"

\* C1: whenever a task of the Controller is about to de-energise the relay or
\* to set NetworkStatus to unblocked, neither ControllerSwitchStatus nor
\* SwitchBoxSwitchStatus is blocked.
C1_GateHoldsAtTheWrite ==
  \A t \in Task :
    Unblocking(t) =>
      /\ mem["ctl"].ControllerSwitchStatus # blocked
      /\ mem["ctl"].SwitchBoxSwitchStatus # blocked

\* C2: whenever a task of the Controller is about to read NetworkStatus (the
\* "ignored" tests of BlockNetwork, the reply built by
\* provideTheSwitchboxTheNetworkStatus), NetworkStatus is blocked exactly when
\* the relay is energised.
C2_StatusIsTheRelay ==
  \A t \in Task :
    (At("ctl", t, "bn_entry") \/ At("ctl", t, "pts_entry")) =>
      (mem["ctl"].NetworkStatus = blocked <=> Energised)

\* C3: whenever BlockNetwork(true, origin) has returned on the Controller, the
\* relay is energised and NetworkStatus is blocked.
C3_BlockIsHonoured ==
  \A t \in Task :
    (Returned(t, {"ignored", "done"}) /\ frame["ctl"][t].blockNow) =>
      (Energised /\ mem["ctl"].NetworkStatus = blocked)

\* task t of the Controller takes the step that leaves BlockNetwork's entry
LeavesEntry(t) ==
  /\ pc["ctl"][t] = "bn_entry"
  /\ pc'["ctl"][t] # "bn_entry"

\* C4: a call of BlockNetwork for the state NetworkStatus already has (block
\* while blocked, unblock while unblocked) returns in its first step, and that
\* step changes no global of either node (relay, NetworkStatus,
\* SwitchBoxSwitchStatus, flash rate and touch-base target among them), hands
\* no frame to the radio and adds no callback.
C4_AlreadyAsRequestedIsANoOp ==
  [][\A t \in Task :
       (/\ LeavesEntry(t)
        /\ \/ frame["ctl"][t].blockNow /\ mem["ctl"].NetworkStatus = blocked
           \/ ~frame["ctl"][t].blockNow /\ mem["ctl"].NetworkStatus = unblocked)
       => /\ pc'["ctl"][t] = Head(stack["ctl"][t])
          /\ stack'["ctl"][t] = Tail(stack["ctl"][t])
          /\ mem' = mem
          /\ air' = air
          /\ events' = events]_vars

\* an unblock asked for while the network is unblocked has returned, relay
\* de-energised
C4_Witness ==
  \E t \in Task :
    /\ Returned(t, {"ignored"})
    /\ ~frame["ctl"][t].blockNow
    /\ mem["ctl"].NetworkStatus = unblocked
    /\ ~Energised

\* C5, as stated: an unblock that passed the "ignored" tests is granted
\* exactly when neither of the two statuses held at the call was blocked.
C5_GrantedByTheHeldStatuses ==
  \A t \in Task :
    (Returned(t, {"done", "denied"}) /\ ~frame["ctl"][t].blockNow) =>
      (frame["ctl"][t].outcome = "done"
         <=> (frame["ctl"][t].held[1] # blocked /\ frame["ctl"][t].held[2] # blocked))

\* C5, amended: an unblock that passed the "ignored" tests is granted exactly
\* when ControllerSwitchStatus is not blocked when BlockNetwork tests it and
\* SwitchBoxSwitchStatus is not blocked when BlockNetwork tests it after it has
\* reset it to unknown (and, for the Controller's own request, asked the
\* Switchbox); a denial by the first test leaves the second one out.
C5_GrantedByTheTestedStatuses ==
  \A t \in Task :
    (Returned(t, {"done", "denied"}) /\ ~frame["ctl"][t].blockNow) =>
      LET g == frame["ctl"][t].gate
      IN /\ g[1] \in device_Status
         /\ g[1] = blocked => g[2] = "unread"
         /\ g[1] # blocked => g[2] \in device_Status
         /\ frame["ctl"][t].outcome = "done" <=> (g[1] # blocked /\ g[2] \notin {blocked, "unread"})

\* the Controller's own unblock is granted although SwitchBoxSwitchStatus was
\* blocked at the call: the status was reset and no reply came
C5_Witness ==
  \E t \in Task :
    /\ Returned(t, {"done"})
    /\ ~frame["ctl"][t].blockNow
    /\ frame["ctl"][t].held[2] = blocked
    /\ frame["ctl"][t].gate = <<unblocked, unknown>>

HandlingAPress ==
  /\ frame["ctl"]["wifi"].incomingMessage.transmission = requestControllerBlockNetwork
  /\ env.toggles > 0
  /\ env.faults = 0
  /\ mem["ctl"].ControllerSwitchStatus = unblocked

\* C7: the Switchbox, its status changed to blocked, sends
\* requestControllerBlockNetwork; when the Controller's BlockNetwork has
\* returned for it the relay is energised and NetworkStatus is blocked; the
\* reply the Controller then sends is networkStatusReply(blocked); the
\* Switchbox records the status of the reply it receives.
C7_PressBlocksEndToEnd ==
  [][/\ (pc["sbx"]["main"] = "rtb_send" /\ mem["sbx"].SwitchBoxSwitchStatus = blocked)
        => frame["sbx"]["main"].outgoingTransmission.transmission
             = requestControllerBlockNetwork
     /\ (pc["ctl"]["wifi"] = "odr_provide" /\ HandlingAPress)
        => (Energised /\ mem["ctl"].NetworkStatus = blocked)
     /\ (pc["ctl"]["wifi"] = "pts_send" /\ HandlingAPress)
        => frame["ctl"]["wifi"].outgoingTransmission
             = transmission_Structure(networkStatusReply, blocked)
     /\ (/\ pc["sbx"]["wifi"] = "odr_dispatch"
         /\ pc'["sbx"]["wifi"] # "odr_dispatch"
         /\ frame["sbx"]["wifi"].incomingMessage.transmission = networkStatusReply)
        => mem'["sbx"].NetworkStatus = frame["sbx"]["wifi"].incomingMessage.status]_vars

(* ------------------ boots with and without a fault -------------------- *)
\* pins holds, for each node, the two readings of each of its four pins as
\* setup() finds them: those of a sound wiring, or a wiring on which the
\* number of inputs that read closed is not one.  initializeESPNOW() may
\* fail on a node that has found its role.

\* the readings of a steady wiring
SteadyPins == {p \in RolePins : \A k \in DOMAIN p : p[k] \in {<<0, 0>>, <<1, 1>>}}

\* setTheRoleOfThisDeviceBasedOnItsWiring() returns false on these readings
WiringFault(p) == ~setTheRoleOfThisDeviceBasedOnItsWiring(p, useASwitchbox, 0).ok

InitFault ==
  /\ mem = [n \in Node |-> Globals]
  /\ button \in [Node -> {"released", "engaged"}]
  /\ pc = [n \in Node |-> [t \in Task |-> IF t = "main" THEN "setup_role" ELSE "idle"]]
  /\ stack = [n \in Node |-> [t \in Task |-> << >>]]
  /\ frame = [n \in Node |-> [t \in Task |-> NoFrame]]
  /\ air = [n \in Node |-> << >>]
  /\ events = [n \in Node |-> << >>]
  /\ env = [toggles |-> 0, faults |-> 0, expiries |-> 0]
  /\ networkBlockingIsActive = FALSE
  /\ probe = [NoProbe EXCEPT !.at = "boot"]
  /\ pins \in {w \in [Node -> SteadyPins] :
                 \A n \in Node : w[n] = WiredPins(n, button[n]) \/ WiringFault(w[n])}

NextFault ==
  \/ Next
  \/ \E n \in Node : initializeESPNOW_failed(n)

SpecFault == InitFault /\ [][NextFault]_vars

\* setup() has called setTheRoleOfThisDeviceBasedOnItsWiring() on node n
RoleTried(n) == pc[n]["main"] # "setup_role"

\* C11: a node whose wiring has no input or several inputs reading closed
\* has, once setup() has tried to find its role, the wiring-problem flash rate
\* and is in the loop that only flashes the LED; it has registered no
\* callback, has handed no frame to the radio, runs and awaits no callback,
\* and its relay is de-energised.
C11_WiringFaultIsTerminal ==
  \A n \in Node :
    (RoleTried(n) /\ WiringFault(pins[n])) =>
      /\ pc[n]["main"] = "flash_forever"
      /\ mem[n].FlashRateOfTheLED = FlashRateOfTheLEDWhenThereIsAWiringProblem
      /\ ~mem[n].recvRegistered
      /\ air[n] = << >>
      /\ events[n] = << >>
      /\ pc[n]["wifi"] = "idle"
      /\ mem[n].relayPin = "LOW"
      /\ mem[n].NetworkStatus = unblocked

\* the Controller's board has both of its own inputs reading closed; it
\* flashes while the Switchbox has sent a frame that was lost on it
C11_Witness ==
  /\ pins["ctl"].cNC = <<0, 0>> /\ pins["ctl"].cNO = <<0, 0>>
  /\ pc["ctl"]["main"] = "flash_forever"
  /\ mem["ctl"].FlashRateOfTheLED = FlashRateOfTheLEDWhenThereIsAWiringProblem
  /\ mem["sbx"].thisIsTheSwitchbox
  /\ mem["sbx"].FlashRateOfTheLED = CommsProblem
  /\ pc["sbx"]["main"] = "loop"

\* the two role flags of a node
RoleFlags(n) == <<mem[n].thisIsTheController, mem[n].thisIsTheSwitchbox>>

\* C12: the two role flags of a node are never both true; once setup() has
\* found the role of a soundly wired node exactly one of them is true; and
\* from the return of setTheRoleOfThisDeviceBasedOnItsWiring() on no step,
\* of the loop or of a callback, changes either.
C12_RoleIsOneAndFixed ==
  [][\A n \in Node :
       /\ RoleFlags(n) # <<TRUE, TRUE>>
       /\ RoleFlags(n)' # <<TRUE, TRUE>>
       /\ (RoleTried(n)' /\ ~WiringFault(pins[n]))
            => RoleFlags(n)' \in {<<TRUE, FALSE>>, <<FALSE, TRUE>>}
       /\ RoleTried(n) => RoleFlags(n)' = RoleFlags(n)]_vars

\* the Switchbox, its role found, is handling a frame it has received
C12_Witness ==
  /\ RoleFlags("sbx") = <<FALSE, TRUE>>
  /\ RoleFlags("ctl") = <<TRUE, FALSE>>
  /\ pc["sbx"]["wifi"] = "odr_dispatch"
  /\ frame["sbx"]["wifi"].incomingMessage.transmission = networkStatusReply

(* ---------------- the callbacks, frame by frame ------------------------ *)
\* Both nodes have booted and their loop() is idle: the statuses it last
\* acted on are the ones held.  A frame of any kind, sent by the peer or not,
\* is received by either node; the WiFi task runs OnDataRecv and OnDataSent,
\* and the replies travel.  A button has been moved once since the boot: a
\* send may be rejected or a frame lost.

\* frames received in one behaviour
MaxFrames == 1

\* the flash rate and touch-base period of a node without and with a
\* communications problem noted
Alarms == {[flash |-> 0, allIsGood |-> TRUE], [flash |-> CommsProblem, allIsGood |-> FALSE]}

\* the statuses a Controller at rest holds: a blocked switch has blocked the
\* network
ControllerAtRest ==
  {x \in [own : {blocked, unblocked}, peer : device_Status,
          network : {blocked, unblocked}] :
     x.own = blocked => x.network = blocked}

\* the globals of a booted node whose loop() is idle
AtRest(n, own, peer, network, alarm) ==
  [Booted(n) EXCEPT
     !.ControllerSwitchStatus = IF n = "ctl" THEN own ELSE unknown,
     !.lastControllerSwitchStatus = IF n = "ctl" THEN own ELSE unknown,
     !.SwitchBoxSwitchStatus = IF n = "ctl" THEN peer ELSE own,
     !.lastSwitchBoxSwitchStatus = IF n = "ctl" THEN unknown ELSE own,
     !.NetworkStatus = network,
     !.relayPin = IF n = "ctl" /\ network = blocked THEN "HIGH" ELSE "LOW",
     !.FlashRateOfTheLED = alarm.flash,
     !.nextTouchBaseTimeTarget = TouchBasePeriod(n = "ctl", alarm.allIsGood),
     !.packedSentSuccesfully = alarm.allIsGood,
     !.recvRegistered = TRUE]

\* the frames a node may receive: the replies with any status, the requests
\* as their senders build them
Frames ==
  {transmission_Structure(k, st) : k \in {networkStatusReply, switchboxStatusReply},
                                   st \in device_Status}
  \cup {transmission_Structure(k, unknown) :
          k \in transmission_Type \ {networkStatusReply, switchboxStatusReply}}

InitRecv ==
  /\ \E c \in ControllerAtRest, a \in Alarms, b \in Alarms,
        o \in {blocked, unblocked} :
        mem = [n \in Node |->
                 IF n = "ctl" THEN AtRest(n, c.own, c.peer, c.network, a)
                              ELSE AtRest(n, o, unknown, unblocked, b)]
  /\ button \in {x \in [Node -> {"released", "engaged"}] :
                   (x["ctl"] = "engaged") <=> (mem["ctl"].ControllerSwitchStatus = blocked)}
  /\ pc = [n \in Node |-> [t \in Task |-> IF t = "main" THEN "loop" ELSE "idle"]]
  /\ stack = [n \in Node |-> [t \in Task |-> << >>]]
  /\ frame = [n \in Node |-> [t \in Task |-> NoFrame]]
  /\ air = [n \in Node |-> << >>]
  /\ events = [n \in Node |-> << >>]
  /\ env = [toggles |-> 1, faults |-> 0, expiries |-> 0]
  /\ networkBlockingIsActive = FALSE
  /\ pins = NoPins
  /\ probe = [NoProbe EXCEPT !.at = "recv"]

\* the radio hands a frame to node n
Receive(n) ==
  /\ NoneUrgent
  /\ probe.at = "recv"
  /\ probe.polls < MaxFrames
  /\ pc[n]["wifi"] = "idle"
  /\ \E m \in Frames :
       events' = [events EXCEPT ![n] = Append(@, [cb |-> "recv", msg |-> m])]
  /\ probe' = [probe EXCEPT !.polls = @ + 1]
  /\ UNCHANGED <<mem, button, tasks, air, env, networkBlockingIsActive, pins>>

\* the routines OnDataRecv calls
Handler(n) ==
  \/ provideTheSwitchboxTheNetworkStatus(n, "wifi")
  \/ provideTheSwitchboxTheNetworkStatus_send(n, "wifi")
  \/ checkEmergencyStopButton_read(n, "wifi")
  \/ checkEmergencyStopButton_store(n, "wifi")
  \/ provideTheControllerTheSwitchboxStatus(n, "wifi")
  \/ provideTheControllerTheSwitchboxStatus_build(n, "wifi")
  \/ provideTheControllerTheSwitchboxStatus_send(n, "wifi")
  \/ BlockNetwork_guard(n, "wifi")
  \/ BlockNetwork_reset(n, "wifi")
  \/ BlockNetwork_checkController(n, "wifi")
  \/ BlockNetwork_checkSwitchbox(n, "wifi")
  \/ BlockNetwork_relay(n, "wifi")
  \/ BlockNetwork_status(n, "wifi")

NextRecv ==
  \/ \E n \in Node : Receive(n)
  \/ \E n \in Node : Callback(n)
  \/ \E n \in Node : OnDataRecv_error(n)
  \/ \E n \in Node : Handler(n)
  \/ \E n \in Node : Deliver(n)
  \/ \E n \in Node : Lose(n)

SpecRecv == InitRecv /\ [][NextRecv]_vars

(* ------------------- the handling of received frames ------------------- *)

\* the Controller's WiFi task takes the last step of OnDataRecv for a frame
\* of kind k: the return of provideTheSwitchboxTheNetworkStatus()
RepliesTo(k) ==
  /\ pc["ctl"]["wifi"] = "pts_send"
  /\ pc'["ctl"]["wifi"] = "idle"
  /\ frame["ctl"]["wifi"].incomingMessage.transmission = k

\* C13: when OnDataRecv returns from a requestControllerBlockNetwork,
\* SwitchBoxSwitchStatus is blocked, the relay is energised, NetworkStatus is
\* blocked and the reply it built carries blocked.
C13_BlockRequestLeavesBlocked ==
  [][RepliesTo(requestControllerBlockNetwork) =>
       /\ mem'["ctl"].SwitchBoxSwitchStatus = blocked
       /\ mem'["ctl"].relayPin = "HIGH"
       /\ mem'["ctl"].NetworkStatus = blocked
       /\ frame["ctl"]["wifi"].outgoingTransmission
            = transmission_Structure(networkStatusReply, blocked)]_vars

\* C14: when OnDataRecv returns from a requestControllerUnblockNetwork,
\* SwitchBoxSwitchStatus is unblocked, BlockNetwork has granted or denied the
\* unblock, and the one reply built carries the NetworkStatus that results,
\* blocked after a denial.
C14_UnblockRequestLeavesUnblocked ==
  [][RepliesTo(requestControllerUnblockNetwork) =>
       /\ mem'["ctl"].SwitchBoxSwitchStatus = unblocked
       /\ frame["ctl"]["wifi"].outgoingTransmission
            = transmission_Structure(networkStatusReply, mem'["ctl"].NetworkStatus)
       /\ mem'["ctl"].ControllerSwitchStatus = blocked
            => mem'["ctl"].NetworkStatus = blocked]_vars

\* the status checkEmergencyStopButton() finds on the Switchbox's pins now
FreshSwitchboxStatus ==
  LET p == WiredPins("sbx", button["sbx"])
  IN checkEmergencyStopButton(p.sNC, p.sNO)

\* the Switchbox's WiFi task takes a step of OnDataRecv for a
\* requestSwitchboxStatus
AnswersTheController ==
  /\ frame["sbx"]["wifi"].incomingMessage.transmission = requestSwitchboxStatus
  /\ pc'["sbx"]["wifi"] # pc["sbx"]["wifi"]

RecordsAReply(n) ==
  LET at == pc[n]["wifi"]
      m == IF at = "idle" THEN frame'[n]["wifi"].incomingMessage
                          ELSE frame[n]["wifi"].incomingMessage
  IN /\ pc'[n]["wifi"] # at
     /\ at = "idle" => pc'[n]["wifi"] = "odr_target"
     /\ m.transmission = IF mem[n].thisIsTheController THEN switchboxStatusReply
                                                       ELSE networkStatusReply

\* C16: OnDataRecv stores the status of a switchboxStatusReply in the
\* Controller's SwitchBoxSwitchStatus, and that of a networkStatusReply in the
\* Switchbox's NetworkStatus, and returns: no step of it writes the relay pin
\* or the Controller's NetworkStatus or calls esp_now_send.
C16_RepliesAreOnlyRecorded ==
  [][\A n \in Node :
       RecordsAReply(n) =>
         /\ \A k \in Node : mem'[k].relayPin = mem[k].relayPin
         /\ mem'["ctl"].NetworkStatus = mem["ctl"].NetworkStatus
         /\ radio' = radio \/ (pc[n]["wifi"] = "idle" /\ air' = air)
         /\ pc[n]["wifi"] = "odr_dispatch" =>
              /\ pc'[n]["wifi"] = "idle"
              /\ IF n = "ctl"
                 THEN mem'[n].SwitchBoxSwitchStatus
                        = frame[n]["wifi"].incomingMessage.status
                 ELSE mem'[n].NetworkStatus
                        = frame[n]["wifi"].incomingMessage.status]_vars

\* the Switchbox has recorded blocked from a networkStatusReply: the
\* Controller's NetworkStatus and relay are as they were, nothing is on the air
C16_Witness ==
  /\ probe.at = "recv" /\ probe.polls = 1
  /\ pc["sbx"]["wifi"] = "idle" /\ events["sbx"] = << >>
  /\ mem["sbx"].NetworkStatus = blocked
  /\ mem["ctl"].NetworkStatus = unblocked
  /\ mem["ctl"].relayPin = "LOW"
  /\ air = [n \in Node |-> << >>]

\* the transmissions OnDataRecv has no branch for on node n
Stray(n) ==
  IF n = "ctl" THEN {networkStatusReply, requestSwitchboxStatus}
               ELSE transmission_Type \ {networkStatusReply, requestSwitchboxStatus}

\* the WiFi task of n takes a step of OnDataRecv for such a transmission
HandlesAStray(n) ==
  LET at == pc[n]["wifi"]
      m == IF at = "idle" THEN frame'[n]["wifi"].incomingMessage
                          ELSE frame[n]["wifi"].incomingMessage
  IN /\ pc'[n]["wifi"] # at
     /\ at = "idle" => pc'[n]["wifi"] = "odr_target"
     /\ m.transmission \in Stray(n)

\* the variables of n a stray transmission is to leave alone
Kept(n) ==
  <<mem[n].ControllerSwitchStatus, mem[n].SwitchBoxSwitchStatus,
    mem[n].NetworkStatus, mem[n].relayPin,
    mem[n].nextTouchBaseTimeTarget, mem[n].touchBaseDue>>

\* C17: OnDataRecv, for a transmission the role of the node has no branch for,
\* returns with the communications-problem flash rate, and no step of it calls
\* esp_now_send or writes a switch status, NetworkStatus, the relay pin or
\* nextTouchBaseTimeTarget.
C17_StrayFrameOnlyAlarms ==
  [][\A n \in Node :
       HandlesAStray(n) =>
         /\ Kept(n)' = Kept(n)
         /\ air' = air
         /\ pc'[n]["wifi"] = "idle" => mem'[n].FlashRateOfTheLED = CommsProblem]_vars

(* ----------------------- the touch-base schedule ---------------------- *)

\* OnDataRecv returns on node n from a transmission it has a branch for
HasHandled(n) ==
  /\ pc[n]["wifi"] # "idle"
  /\ pc'[n]["wifi"] = "idle"
  /\ frame[n]["wifi"].incomingMessage.transmission \in transmission_Type \ Stray(n)

\* the step is a call of esp_now_send that returns an error
RejectsTheSend == env'.faults = env.faults + 1 /\ air' = air

\* nextTouchBaseTimeTarget of n is millis() at the receipt + the good period
\* (+ the Switchbox's offset) and is not yet passed
TargetIsGood(n) ==
  /\ mem'[n].nextTouchBaseTimeTarget = 30000 + (IF n = "ctl" THEN 0 ELSE 1500)
  /\ ~mem'[n].touchBaseDue

\* C19 as stated: when OnDataRecv returns from a transmission it has a branch
\* for, the flash rate is 0 and nextTouchBaseTimeTarget is the time of the
\* receipt + the good period (+ 1.5 s on the Switchbox).
C19_HandledFrameLeavesNoAlarm ==
  [][\A n \in Node :
       HasHandled(n) => mem'[n].FlashRateOfTheLED = 0 /\ TargetIsGood(n)]_vars

\* the WiFi task of n takes a step of OnDataRecv, past its first two, for a
\* transmission it has a branch for
Handles(n) ==
  /\ pc[n]["wifi"] \notin {"idle", "odr_target"}
  /\ pc'[n]["wifi"] # pc[n]["wifi"]
  /\ frame[n]["wifi"].incomingMessage.transmission \in transmission_Type \ Stray(n)

\* what OnDataRecv does to the flash rate and the target of n (C19)
OnDataRecvKeepsItsSchedule ==
  \A n \in Node :
    /\ pc[n]["wifi"] = "idle" /\ pc'[n]["wifi"] = "odr_target"
         => mem'[n].FlashRateOfTheLED = 0
    /\ pc[n]["wifi"] = "odr_target" /\ pc'[n]["wifi"] # "odr_target"
         => TargetIsGood(n)
    /\ Handles(n) =>
         /\ mem'[n].nextTouchBaseTimeTarget = mem[n].nextTouchBaseTimeTarget
         /\ mem'[n].touchBaseDue = mem[n].touchBaseDue
         /\ mem'[n].FlashRateOfTheLED
              = IF RejectsTheSend THEN CommsProblem ELSE mem[n].FlashRateOfTheLED

\* C19: OnDataRecv sets the flash rate to 0 and nextTouchBaseTimeTarget to
\* millis() + the good period (+ 1.5 s on the Switchbox) before it looks at
\* the transmission, whatever they were.  Handling a transmission it has a
\* branch for, it does not write the target again, and writes the flash rate
\* again only when esp_now_send rejects its reply: the communications-problem
\* rate.  With the main task at rest it returns with that target, and with the
\* flash rate 0 unless the reply was rejected.
C19_HandledFrameLeavesNoAlarmUnlessRejected ==
  [][/\ OnDataRecvKeepsItsSchedule
     /\ \A n \in Node :
          HasHandled(n) =>
            /\ TargetIsGood(n)
            /\ mem'[n].FlashRateOfTheLED
                 = IF RejectsTheSend THEN CommsProblem ELSE 0]_vars

\* the Controller, not alarmed, has handled a frame and esp_now_send rejected
\* its reply: it is alarmed, its target the good period ahead
C19_Witness ==
  /\ probe.at = "recv" /\ probe.polls = 1
  /\ pc["ctl"]["wifi"] = "idle" /\ events["ctl"] = << >>
  /\ air = [n \in Node |-> << >>]
  /\ env.faults = 1
  /\ mem["ctl"].packedSentSuccesfully
  /\ mem["ctl"].FlashRateOfTheLED = CommsProblem
  /\ mem["ctl"].nextTouchBaseTimeTarget = 30000

(* ------------------- the touch-base schedule on the clock ------------- *)

\* millis() and nextTouchBaseTimeTarget are unsigned long, 32 bits on the
\* ESP32: their values are taken modulo 2^32 ms.  The clock is counted in ticks
\* of 4 ms, of which 2^30 make 2^32 ms; the periods are whole numbers of ticks.
ClockModulus == 1073741824

Ticks(ms) == ms \div 4

\* the elapses of the clock taken, at most
MaxElapses == 3

\* the times between two looks at the clock, in ms: an iteration of loop(), and
\* the guard, known-problem and good periods just passed, without and with the
\* Switchbox's offset
Elapses == {4, 2004, 5004, 6504, 30004, 31504}

\* the instants, in ticks, at which the schedule is taken up: the boot, and the
\* last half minute and the last seconds before millis() returns to 0, 49.7
\* days after the boot
Instants ==
  {0, ClockModulus - Ticks(31504), ClockModulus - Ticks(30004),
   ClockModulus - Ticks(6504), ClockModulus - Ticks(5004),
   ClockModulus - Ticks(2004), ClockModulus - Ticks(4)}

\* millis() + period, as unsigned long
Ahead(now, period) == (now + Ticks(period)) % ClockModulus

\* the schedule of one node: its role, millis(), nextTouchBaseTimeTarget, the
\* statement that wrote the target last and the time since, in ticks
Clock(c, now, target, after, since, n) ==
  [at |-> "clock", isController |-> c, millis |-> now,
   nextTouchBaseTimeTarget |-> target, after |-> after, since |-> since,
   polls |-> n]

\* a frame has just been received: OnDataRecv has set the target
InitClock ==
  /\ mem = [n \in Node |-> Globals]
  /\ button = [n \in Node |-> "released"]
  /\ pc = [n \in Node |-> [t \in Task |-> IF t = "main" THEN "loop" ELSE "idle"]]
  /\ stack = [n \in Node |-> [t \in Task |-> << >>]]
  /\ frame = [n \in Node |-> [t \in Task |-> NoFrame]]
  /\ air = [n \in Node |-> << >>]
  /\ events = [n \in Node |-> << >>]
  /\ env = [toggles |-> 0, faults |-> 0, expiries |-> 0]
  /\ networkBlockingIsActive = FALSE
  /\ pins = NoPins
  /\ \E c \in BOOLEAN, now \in Instants :
       probe = Clock(c, now, Ahead(now, TouchBasePeriod(c, TRUE)), "recv", 0, 0)

ClockOnly == UNCHANGED <<mem, button, tasks, radio, env, networkBlockingIsActive, pins>>

\* time passes
Elapse(ms) ==
  /\ probe.at = "clock"
  /\ probe.polls < MaxElapses
  /\ probe' = [probe EXCEPT !.millis = (@ + Ticks(ms)) % ClockModulus,
                            !.since = @ + Ticks(ms),
                            !.polls = @ + 1]
  /\ ClockOnly

\* periodicCheckToEnsureCommunicationsAreOK() in an iteration of loop():
\* if (millis() > nextTouchBaseTimeTarget) the target is set to
\* millis() + 2000 and the status is sent
periodicCheckToEnsureCommunicationsAreOK_clock ==
  /\ probe.at = "clock"
  /\ IF probe.millis > probe.nextTouchBaseTimeTarget
     THEN probe' = [probe EXCEPT
                      !.nextTouchBaseTimeTarget = Ahead(probe.millis, touchBaseGuardPeriod),
                      !.after = "probe",
                      !.since = 0]
     ELSE UNCHANGED probe
  /\ ClockOnly

\* OnDataSent: the target is set to millis() + the good or the known-problem
\* period (+ the Switchbox's offset)
OnDataSent_clock(ok) ==
  /\ probe.at = "clock"
  /\ probe' = [probe EXCEPT
                 !.nextTouchBaseTimeTarget =
                    Ahead(probe.millis, TouchBasePeriod(probe.isController, ok)),
                 !.after = IF ok THEN "sent" ELSE "failed",
                 !.since = 0]
  /\ ClockOnly

\* OnDataRecv: the target is set to millis() + the good period (+ offset)
OnDataRecv_clock ==
  /\ probe.at = "clock"
  /\ probe' = [probe EXCEPT
                 !.nextTouchBaseTimeTarget =
                    Ahead(probe.millis, TouchBasePeriod(probe.isController, TRUE)),
                 !.after = "recv",
                 !.since = 0]
  /\ ClockOnly

NextClock ==
  \/ \E ms \in Elapses : Elapse(ms)
  \/ periodicCheckToEnsureCommunicationsAreOK_clock
  \/ \E ok \in BOOLEAN : OnDataSent_clock(ok)
  \/ OnDataRecv_clock

SpecClock == InitClock /\ [][NextClock]_vars

\* the iteration of loop() finds millis() beyond the target and sends the
\* status
Probes ==
  /\ probe'.after = "probe"
  /\ probe'.since = 0
  /\ probe'.millis = probe.millis
  /\ probe' # probe

\* C18: OnDataSent sets nextTouchBaseTimeTarget to millis() + 5000 (+ 1500 on
\* the Switchbox) for a failed send and to millis() + 30000 (+ 1500) for a
\* successful one, and the probe that follows a successful send is sent when
\* the good period has passed since, not before.
C18_ProbeFollowsThePeriodSet ==
  [][/\ probe'.after \in {"sent", "failed"} /\ probe'.since = 0 /\ probe' # probe
          => probe'.nextTouchBaseTimeTarget
               = ( probe.millis
                   + Ticks((IF probe'.after = "sent" THEN 30000 ELSE 5000)
                           + (IF probe.isController THEN 0 ELSE 1500)) ) % ClockModulus
     /\ Probes /\ probe.after = "sent"
          => probe.since > Ticks(30000 + (IF probe.isController THEN 0 ELSE 1500))]_vars

\* C20: the iteration of loop() that finds millis() beyond
\* nextTouchBaseTimeTarget sets the target to millis() + 2000 and sends the
\* status; no later iteration sends it again before 2 s have passed, unless
\* OnDataSent or OnDataRecv has set the target in between.
C20_OneProbePerGuardPeriod ==
  [][Probes =>
       /\ probe'.nextTouchBaseTimeTarget = (probe.millis + Ticks(2000)) % ClockModulus
       /\ probe.after = "probe" => probe.since > Ticks(2000)]_vars

(* --------------------- boots without the transport -------------------- *)

\* setup() of n, its wiring sound, has left for the loop that only flashes the
\* LED: initializeESPNOW() has returned false
TransportFailed(n) ==
  /\ pc[n]["main"] = "flash_forever"
  /\ ~WiringFault(BootPins(n))

\* C21: a node whose initializeESPNOW() has returned false, for esp_now_init
\* or for esp_now_add_peer, has the flash rate of a failed initialisation and
\* is in the loop that only flashes the LED; it has registered no receive
\* callback, has handed no frame to the radio, runs no callback, and its relay
\* is de-energised.
C21_TransportFailureIsAlarmed ==
  \A n \in Node :
    TransportFailed(n) =>
      /\ mem[n].FlashRateOfTheLED = FlashRateOfTheLEDWhenTheESPNOWFailedToInitialize
      /\ ~mem[n].recvRegistered
      /\ air[n] = << >>
      /\ pc[n]["wifi"] = "idle"
      /\ mem[n].relayPin = "LOW"
      /\ mem[n].NetworkStatus = unblocked

(* ------------------ communication errors and the relay ---------------- *)

\* task t of the Controller, in BlockNetwork for its own request, de-energises
\* the relay having found SwitchBoxSwitchStatus unknown: the Switchbox was
\* asked and no reply was there
ReleasesUnanswered(t) ==
  /\ pc["ctl"][t] = "bn_relay"
  /\ pc'["ctl"][t] = "bn_status"
  /\ ~frame["ctl"][t].blockNow
  /\ frame["ctl"][t].RequestCameFromController
  /\ frame["ctl"][t].gate[2] = unknown
  /\ mem["ctl"].relayPin = "HIGH"
  /\ mem'["ctl"].relayPin = "LOW"

\* C22: with the network blocked, a status request that is lost, rejected or
\* not answered in time does not lead BlockNetwork to de-energise the relay
\* while the Emergency Stop button of the Controller or of the Switchbox is
\* engaged.
C22_NoReleaseOnCommsError ==
  [][\A t \in Task :
       ReleasesUnanswered(t) =>
         button["ctl"] = "released" /\ button["sbx"] = "released"]_vars

(* ---------------- the OPNsense sketch: aligning the rules ------------- *)

disabled == 0
enabled == 1

\* the rules of the sketch, by their places in API_RULES
API_RULES == <<"IPv4 BLOCK RULE UUID", "IPv6 BLOCK RULE UUID">>

Rules == {API_RULES[i] : i \in 1..Len(API_RULES)}

\* the passes of alignAllOPNsenseRules() taken, at most
MaxPasses == 2

\* a rule on the firewall: its row with "enabled" 1 or 0, or no row among
\* those that searchRule returns
Rows == {<<enabled>>, <<disabled>>, << >>}

\* a variant that finds every matched rule in order
alignRule_asFound(row, active) ==
  IF row = << >> THEN "unmatched" ELSE "none"

\* what the pass does for a rule of API_RULES, from its row in the document
\* and networkBlockingIsActive: the nested tests of the loop's body
alignRule(row, active) ==
  IF row = << >> THEN "unmatched"
  ELSE IF row[1] = enabled
       THEN IF active THEN "none" ELSE "disable"
       ELSE IF active THEN "enable" ELSE "none"

\* the sketch between two passes; table is the firewall's rule table, pending
\* tells that a change of it has not been applied
InitRules ==
  /\ mem = [n \in Node |-> Globals]
  /\ button = [n \in Node |-> "released"]
  /\ pc = [n \in Node |-> [t \in Task |-> IF t = "main" THEN "loop" ELSE "idle"]]
  /\ stack = [n \in Node |-> [t \in Task |-> << >>]]
  /\ frame = [n \in Node |-> [t \in Task |-> NoFrame]]
  /\ air = [n \in Node |-> << >>]
  /\ events = [n \in Node |-> << >>]
  /\ env = [toggles |-> 0, faults |-> 0, expiries |-> 0]
  /\ networkBlockingIsActive = FALSE
  /\ pins = NoPins
  /\ \E t \in [Rules -> Rows] :
       probe = [at |-> "rules_rest", table |-> t, doc |-> t, pending |-> FALSE,
                APIRuleToCheck |-> 1, returnValue |-> TRUE, applyRequired |-> FALSE,
                everyThingIsAsItShouldBe |-> TRUE, polls |-> 0]

RulesOnly == UNCHANGED <<mem, button, tasks, radio, env, pins>>

\* checkEmergencyStopButton() sets networkBlockingIsActive and
\* activateNetworkBlockingAsRequired() calls alignAllOPNsenseRules(), the flag
\* having changed or the reconfirmation being due
activateNetworkBlockingAsRequired ==
  /\ probe.at = "rules_rest"
  /\ probe.polls < MaxPasses
  /\ networkBlockingIsActive' \in BOOLEAN
  /\ probe' = [probe EXCEPT !.at = "rules_get", !.polls = @ + 1,
                            !.returnValue = TRUE, !.applyRequired = FALSE,
                            !.APIRuleToCheck = 1]
  /\ RulesOnly

\* httpClient.GET() of searchRule: the document holds the table, or the status
\* is not HTTP_CODE_OK
alignAllOPNsenseRules_get ==
  /\ probe.at = "rules_get"
  /\ \/ probe' = [probe EXCEPT !.at = "rules_loop", !.doc = probe.table]
     \/ probe' = [probe EXCEPT !.at = "rules_end", !.returnValue = FALSE]
  /\ UNCHANGED networkBlockingIsActive
  /\ RulesOnly

\* the body of the loop over API_RULES: the rule is looked up in the document
\* and enableRule() is called where its state is not the one wanted;
\* enableRule() changes the table and returns true, or returns false
alignAllOPNsenseRules_rule ==
  /\ probe.at = "rules_loop"
  /\ LET r == API_RULES[probe.APIRuleToCheck]
         todo == alignRule(probe.doc[r], networkBlockingIsActive)
         next == [probe EXCEPT
                    !.APIRuleToCheck = @ + 1,
                    !.at = IF probe.APIRuleToCheck = Len(API_RULES)
                           THEN "rules_end" ELSE "rules_loop"]
     IN CASE todo = "none" -> probe' = next
          [] todo = "unmatched" -> probe' = [next EXCEPT !.returnValue = FALSE]
          [] OTHER ->
               \/ probe' = [next EXCEPT
                              !.table[r] = IF todo = "enable" THEN <<enabled>> ELSE <<disabled>>,
                              !.pending = TRUE,
                              !.applyRequired = TRUE]
               \/ probe' = [next EXCEPT !.returnValue = FALSE]
  /\ UNCHANGED networkBlockingIsActive
  /\ RulesOnly

\* if (applyRequired) applyAllRules(), whose result is not used; the pass
\* returns returnValue, kept in everyThingIsAsItShouldBe
alignAllOPNsenseRules_return ==
  /\ probe.at = "rules_end"
  /\ \E applied \in BOOLEAN :
       /\ ~probe.applyRequired => ~applied
       /\ probe' = [probe EXCEPT
                      !.at = "rules_rest",
                      !.pending = IF applied THEN FALSE ELSE @,
                      !.everyThingIsAsItShouldBe = probe.returnValue]
  /\ UNCHANGED networkBlockingIsActive
  /\ RulesOnly

NextRules ==
  \/ activateNetworkBlockingAsRequired
  \/ alignAllOPNsenseRules_get
  \/ alignAllOPNsenseRules_rule
  \/ alignAllOPNsenseRules_return

SpecRules == InitRules /\ [][NextRules]_vars

\* a pass has returned true
Aligned ==
  /\ probe.at = "rules_rest"
  /\ probe.polls > 0
  /\ probe.everyThingIsAsItShouldBe

C24_AlarmShortensTheDeadline ==
  \A n \in Node :
    mem[n].FlashRateOfTheLED = CommsProblem =>
      \/ mem[n].touchBaseDue
      \/ mem[n].nextTouchBaseTimeTarget
           <= TouchBasePeriod(mem[n].thisIsTheController, FALSE)

(* ------------------------- the retry of a failed send ----------------- *)

\* C25: on a node whose sends all fail and which receives nothing, the target
\* a failed send or a probe leaves is one millis() gets beyond, so that an
\* iteration of loop() sends the next probe: it is below the greatest value
\* of millis().
C25_FailedSendIsRetried ==
  (probe.at = "clock" /\ probe.after \in {"failed", "probe"})
    => probe.nextTouchBaseTimeTarget < ClockModulus - 1

(* ------------------- the offset of the Switchbox's probes ------------- *)

\* C26: with every frame delivered and no button changing, the Switchbox,
\* whose target a frame of the Controller has set, sends no probe of its own
\* before the Controller's next probe is due, a good period after the last.
C26_SwitchboxWaitsForTheController ==
  [][(Probes /\ ~probe.isController /\ probe.after = "recv")
       => probe.since > Ticks(touchBaseTimePeriodWhenAllIsGood)]_vars

(* ------------------- the status request of an unblock ----------------- *)

\* C27: BlockNetwork, unblocking with a Switchbox configured and the network
\* blocked, calls requestTheSwitchboxStatus() when the request came from the
\* Controller and goes on to its tests at once, sending nothing, when it came
\* from the Switchbox.  requestTheSwitchboxStatus() hands one
\* requestSwitchboxStatus to the radio and comes to its report, and
\* BlockNetwork to its tests, from the wait loop only, which ends when
\* SwitchBoxSwitchStatus is no longer unknown or the 2 s have passed.
C27_UnblockAsksOnceAndWaits ==
  [][\A t \in Task :
       LET at == pc["ctl"][t]
           to == pc'["ctl"][t]
           inBlockNetwork == /\ stack["ctl"][t] # << >>
                             /\ Head(stack["ctl"][t]) = "bn_controller"
       IN /\ (at = "bn_reset" /\ to # at) =>
               /\ to = IF frame["ctl"][t].RequestCameFromController
                       THEN "rts_entry" ELSE "bn_controller"
               /\ air' = air
          /\ (inBlockNetwork /\ at = "rts_send" /\ to # at) =>
               air' = [air EXCEPT !["ctl"] =
                         Append(@, transmission_Structure(requestSwitchboxStatus, unknown))]
          /\ (inBlockNetwork /\ at # "rts_report" /\ to = "rts_report") =>
               /\ at = "rts_wait"
               /\ \/ mem["ctl"].SwitchBoxSwitchStatus # unknown
                  \/ env'.expiries = env.expiries + 1]_vars

(* --------------------- the unblock left unanswered -------------------- *)

\* task t of the Controller takes a step of BlockNetwork, or of the
\* requestTheSwitchboxStatus() it calls, for an unblock of the Controller's
UnblocksForTheController(t) ==
  /\ pc'["ctl"][t] # pc["ctl"][t]
  /\ frame["ctl"][t].RequestCameFromController
  /\ ~frame["ctl"][t].blockNow
  /\ \/ pc["ctl"][t] \in {"bn_controller", "bn_switchbox", "bn_relay", "bn_status"}
     \/ /\ pc["ctl"][t] \in {"rts_entry", "rts_send", "rts_sent", "rts_wait", "rts_report"}
        /\ Head(stack["ctl"][t]) = "bn_controller"

MaxDelays == 170

\* requestTheSwitchboxStatus() has sent its request, SwitchBoxSwitchStatus is
\* unknown and packedSentSuccesfully true: the wait is about to start
InitWait ==
  /\ mem = [n \in Node |-> Globals]
  /\ button = [n \in Node |-> "released"]
  /\ pc = [n \in Node |-> [t \in Task |-> IF t = "main" THEN "loop" ELSE "idle"]]
  /\ stack = [n \in Node |-> [t \in Task |-> << >>]]
  /\ frame = [n \in Node |-> [t \in Task |-> NoFrame]]
  /\ air = [n \in Node |-> << >>]
  /\ events = [n \in Node |-> << >>]
  /\ env = [toggles |-> 0, faults |-> 0, expiries |-> 0]
  /\ networkBlockingIsActive = FALSE
  /\ pins = NoPins
  /\ \E now \in Instants :
       probe = [at |-> "wait_entry", millis |-> now, timeout |-> 0,
                SwitchBoxSwitchStatus |-> unknown, since |-> 0, polls |-> 0]

\* unsigned long timeout = millis() + 2000
requestTheSwitchboxStatus_timeout ==
  /\ probe.at = "wait_entry"
  /\ probe' = [probe EXCEPT !.at = "wait_loop",
                            !.timeout = Ahead(probe.millis, 2000),
                            !.since = 0]
  /\ ClockOnly

\* while ((millis() < timeout) & (SwitchBoxSwitchStatus == unknown)) delay(10):
\* the test, and the delay, which with the test takes three ticks
requestTheSwitchboxStatus_poll ==
  /\ probe.at = "wait_loop"
  /\ IF probe.millis < probe.timeout /\ probe.SwitchBoxSwitchStatus = unknown
     THEN /\ probe.polls < MaxDelays
          /\ probe' = [probe EXCEPT !.millis = (@ + Ticks(10) + 1) % ClockModulus,
                                    !.since = @ + Ticks(10) + 1,
                                    !.polls = @ + 1]
     ELSE probe' = [probe EXCEPT !.at = "wait_done"]
  /\ ClockOnly

\* OnDataRecv stores the status of a switchboxStatusReply during the wait
OnDataRecv_reply ==
  /\ probe.at = "wait_loop"
  /\ probe.SwitchBoxSwitchStatus = unknown
  /\ \E st \in {blocked, unblocked} :
       probe' = [probe EXCEPT !.SwitchBoxSwitchStatus = st]
  /\ ClockOnly

NextWait ==
  \/ requestTheSwitchboxStatus_timeout
  \/ requestTheSwitchboxStatus_poll
  \/ OnDataRecv_reply

SpecWait == InitWait /\ [][NextWait]_vars

\* C29: the wait loop of requestTheSwitchboxStatus() ends when a reply has
\* set SwitchBoxSwitchStatus or 2 s after the timeout was set: it is left at
\* the first test after either, so that the wait lasts no longer than 2 s and
\* one delay.
C29_WaitEndsWithinTwoSeconds ==
  probe.at = "wait_loop" => probe.since < Ticks(2000) + Ticks(10) + 1

(* ------------------- the send routines on either role ----------------- *)

\* calls of a send routine taken in one behaviour
MaxCalls == 1

\* the entries of the routines that call esp_now_send
SendRoutines == {"pts_entry", "ptc_entry", "rtb_entry", "rts_entry"}

\* both nodes at rest, as for the receipt of a frame; no routine called yet
InitSend ==
  /\ \E c \in ControllerAtRest, a \in Alarms, b \in Alarms,
        o \in {blocked, unblocked} :
        mem = [n \in Node |->
                 IF n = "ctl" THEN AtRest(n, c.own, c.peer, c.network, a)
                              ELSE AtRest(n, o, unknown, unblocked, b)]
  /\ button \in {x \in [Node -> {"released", "engaged"}] :
                   (x["ctl"] = "engaged") <=> (mem["ctl"].ControllerSwitchStatus = blocked)}
  /\ pc = [n \in Node |-> [t \in Task |-> IF t = "main" THEN "loop" ELSE "idle"]]
  /\ stack = [n \in Node |-> [t \in Task |-> << >>]]
  /\ frame = [n \in Node |-> [t \in Task |-> NoFrame]]
  /\ air = [n \in Node |-> << >>]
  /\ events = [n \in Node |-> << >>]
  /\ env = [toggles |-> 1, faults |-> 0, expiries |-> 0]
  /\ networkBlockingIsActive = FALSE
  /\ pins = NoPins
  /\ probe = [at |-> "send", polls |-> 0, called |-> << >>]

\* the main task of node n calls one of the send routines, whatever its role
Invoke(n) ==
  /\ NoneUrgent
  /\ probe.at = "send"
  /\ probe.polls < MaxCalls
  /\ pc[n]["main"] = "loop"
  /\ \E l \in SendRoutines :
       /\ Call(n, "main", l, "loop", NoFrame)
       /\ probe' = [probe EXCEPT !.polls = @ + 1, !.called = <<n, l>>]
  /\ UNCHANGED <<mem, button, radio, env, networkBlockingIsActive, pins>>

\* the send routines, and checkEmergencyStopButton() which one of them calls
Sender(n) ==
  \/ provideTheSwitchboxTheNetworkStatus(n, "main")
  \/ provideTheSwitchboxTheNetworkStatus_send(n, "main")
  \/ checkEmergencyStopButton_read(n, "main")
  \/ checkEmergencyStopButton_store(n, "main")
  \/ provideTheControllerTheSwitchboxStatus(n, "main")
  \/ provideTheControllerTheSwitchboxStatus_build(n, "main")
  \/ provideTheControllerTheSwitchboxStatus_send(n, "main")
  \/ requestToBlockOrUnblockNetwork(n, "main")
  \/ requestToBlockOrUnblockNetwork_send(n, "main")
  \/ requestTheSwitchboxStatus(n, "main")
  \/ requestTheSwitchboxStatus_send(n, "main")
  \/ requestTheSwitchboxStatus_sent(n, "main")
  \/ requestTheSwitchboxStatus_wait(n, "main")
  \/ requestTheSwitchboxStatus_report(n, "main")

NextSend ==
  \/ \E n \in Node : Invoke(n)
  \/ \E n \in Node : Sender(n)
  \/ \E n \in Node : Callback(n)
  \/ \E n \in Node : Handler(n)
  \/ \E n \in Node : Deliver(n)
  \/ \E n \in Node : Lose(n)

SpecSend == InitSend /\ [][NextSend]_vars

\* the transmissions of the role of node n
Sends(n) ==
  IF mem[n].thisIsTheController
  THEN {requestSwitchboxStatus, networkStatusReply}
  ELSE {requestNetworkStatus, switchboxStatusReply,
        requestControllerBlockNetwork, requestControllerUnblockNetwork}

\* task t of n is at the entry of a send routine of the other role
OtherRoles(n, t) ==
  IF mem[n].thisIsTheController
  THEN pc[n][t] \in {"ptc_entry", "rtb_entry"}
  ELSE pc[n][t] \in {"pts_entry", "rts_entry"}

\* C30: a frame a node hands to the radio is of a transmission of its role:
\* requestSwitchboxStatus or networkStatusReply on the Controller,
\* switchboxStatusReply, requestControllerBlockNetwork,
\* requestControllerUnblockNetwork (or requestNetworkStatus) on the Switchbox.
\* A send routine entered on a node of the other role returns at once: no
\* global is written, nothing is handed to the radio.
C30_SendersKeepToTheirRole ==
  [][\A n \in Node :
       /\ Len(air'[n]) > Len(air[n]) =>
            air'[n][Len(air'[n])].transmission \in Sends(n)
       /\ \A t \in Task :
            (OtherRoles(n, t) /\ pc'[n][t] # pc[n][t]) =>
              /\ pc'[n][t] = Head(stack[n][t])
              /\ stack'[n][t] = Tail(stack[n][t])
              /\ mem' = mem
              /\ radio' = radio
              /\ env' = env]_vars

\* the Switchbox has been through provideTheSwitchboxTheNetworkStatus(): it
\* is back in loop(), and no frame was sent or is pending
C30_Witness ==
  /\ probe.at = "send"
  /\ probe.called = <<"sbx", "pts_entry">>
  /\ pc["sbx"]["main"] = "loop"
  /\ air = [n \in Node |-> << >>]
  /\ events = [n \in Node |-> << >>]
  /\ env.faults = 0

(* ------------------------ the unknown status -------------------------- *)

\* the status of the switch wired to node n
OwnSwitchStatus(n) ==
  IF mem[n].thisIsTheController THEN mem[n].ControllerSwitchStatus
                                ELSE mem[n].SwitchBoxSwitchStatus

\* the main task of n has not yet returned from the checkEmergencyStopButton()
\* of setup()
BeforeFirstSample(n) ==
  LET at == pc[n]["main"]
      ret == IF stack[n]["main"] = << >> THEN "none" ELSE Head(stack[n]["main"])
  IN \/ at \in {"setup_role", "setup_espnow", "setup_check"}
     \/ at \in {"rts_entry", "rts_send", "rts_sent", "rts_wait", "rts_report"}
          /\ ret = "setup_check"
     \/ at \in {"cesb_read", "cesb_store"} /\ ret = "setup_act"

\* C31: from the return of setup()'s checkEmergencyStopButton() on, the
\* status of a node's own switch is blocked or unblocked; NetworkStatus of
\* either node is blocked or unblocked at all times; every
\* switchboxStatusReply and networkStatusReply handed to the radio or to the
\* peer's receive callback carries blocked or unblocked.  (The Controller's
\* SwitchBoxSwitchStatus is the status that is unknown later on.)
C31_OnlyThePeersStatusIsUnknown ==
  \A n \in Node :
    /\ OwnSwitchStatus(n) = unknown => BeforeFirstSample(n)
    /\ mem[n].NetworkStatus \in {blocked, unblocked}
    /\ \A i \in 1..Len(air[n]) :
         air[n][i].transmission \in {switchboxStatusReply, networkStatusReply}
           => air[n][i].status \in {blocked, unblocked}
    /\ \A i \in 1..Len(events[n]) :
         (events[n][i].cb = "recv"
            /\ events[n][i].msg.transmission \in {switchboxStatusReply, networkStatusReply})
           => events[n][i].msg.status \in {blocked, unblocked}

\* both nodes are in loop(), the Controller holds SwitchBoxSwitchStatus
\* unknown, and a switchboxStatusReply with the Switchbox's status is on its
\* way
C31_Witness ==
  /\ pc["ctl"]["main"] = "loop" /\ pc["sbx"]["main"] = "loop"
  /\ mem["ctl"].SwitchBoxSwitchStatus = unknown
  /\ mem["ctl"].ControllerSwitchStatus = unblocked
  /\ air["sbx"] = <<transmission_Structure(switchboxStatusReply,
                                           mem["sbx"].SwitchBoxSwitchStatus)>>
  /\ mem["sbx"].SwitchBoxSwitchStatus = blocked

(* --------------------- acting on the own switch ----------------------- *)

\* the step hands the frame m of node n to the radio, or esp_now_send
\* rejects it
SendsOnce(n, m) ==
  \/ air' = [air EXCEPT ![n] = Append(@, m)]
  \/ air' = air /\ env'.faults = env.faults + 1

InitReply ==
  /\ \E s \in {blocked, unblocked}, o \in {blocked, unblocked}, h \in device_Status :
       /\ mem = [n \in Node |->
                   IF n = "ctl"
                   THEN AtRest(n, unblocked, s, blocked, [flash |-> 0, allIsGood |-> TRUE])
                   ELSE AtRest(n, o, unknown, blocked, [flash |-> 0, allIsGood |-> TRUE])]
       /\ button = [n \in Node |->
                      IF n = "sbx" /\ o = blocked THEN "engaged" ELSE "released"]
       /\ frame = [n \in Node |-> [t \in Task |->
                      IF n = "ctl" /\ t = "main"
                      THEN [NoFrame EXCEPT !.RequestCameFromController = TRUE,
                                           !.held = <<unblocked, h>>]
                      ELSE NoFrame]]
       /\ air \in {[n \in Node |-> IF n = "sbx" THEN a ELSE << >>] :
                     a \in {<< >>,
                            <<transmission_Structure(switchboxStatusReply, o)>>,
                            <<transmission_Structure(
                                IF o = blocked THEN requestControllerBlockNetwork
                                               ELSE requestControllerUnblockNetwork,
                                unknown)>>}}
       /\ probe = [at |-> "reply", status |-> s]
  /\ pc = [n \in Node |-> [t \in Task |->
             IF t = "wifi" THEN "idle" ELSE IF n = "ctl" THEN "rts_wait" ELSE "loop"]]
  /\ stack = [n \in Node |-> [t \in Task |->
                IF n = "ctl" /\ t = "main"
                THEN <<"bn_controller", "anc_provide", "loop_periodic">> ELSE << >>]]
  /\ events = [n \in Node |-> << >>]
  /\ env = [toggles |-> 1, faults |-> 0, expiries |-> 0]
  /\ networkBlockingIsActive = FALSE
  /\ pins = NoPins

\* the rest of the loop task's iteration
Waiter(n) ==
  \/ requestTheSwitchboxStatus_wait(n, "main")
  \/ requestTheSwitchboxStatus_report(n, "main")
  \/ BlockNetwork_checkController(n, "main")
  \/ BlockNetwork_checkSwitchbox(n, "main")
  \/ BlockNetwork_relay(n, "main")
  \/ BlockNetwork_status(n, "main")
  \/ actionANetworkChangeAsNeeded_provide(n, "main")
  \/ provideTheSwitchboxTheNetworkStatus(n, "main")
  \/ provideTheSwitchboxTheNetworkStatus_send(n, "main")
  \/ periodicCheckToEnsureCommunicationsAreOK(n)

\* the routines OnDataRecv calls on the Controller
Gate(n) ==
  \/ BlockNetwork_guard(n, "wifi")
  \/ BlockNetwork_reset(n, "wifi")
  \/ BlockNetwork_checkController(n, "wifi")
  \/ BlockNetwork_checkSwitchbox(n, "wifi")
  \/ BlockNetwork_relay(n, "wifi")
  \/ BlockNetwork_status(n, "wifi")
  \/ provideTheSwitchboxTheNetworkStatus(n, "wifi")
  \/ provideTheSwitchboxTheNetworkStatus_send(n, "wifi")

NextReply ==
  \/ Waiter("ctl")
  \/ Gate("ctl")
  \/ \E n \in Node : Callback(n)
  \/ \E n \in Node : Deliver(n)
  \/ \E n \in Node : Lose(n)

SpecReply == InitReply /\ [][NextReply]_vars

\* C33: a switchboxStatusReply that OnDataRecv stored while the loop task was
\* in the wait loop of requestTheSwitchboxStatus() ends that wait, which is
\* then left with a status and not on its timeout, and the status the reply
\* carried is the one BlockNetwork reads at its test of SwitchBoxSwitchStatus,
\* whether the reply was built before or after the request was sent.
C33_TheReplyEndsTheWaitAndIsTested ==
  [][probe.at = "reply" =>
       LET at == pc["ctl"]["main"]
           to == pc'["ctl"]["main"]
       IN /\ (at = "rts_wait" /\ to # at) =>
               /\ mem["ctl"].SwitchBoxSwitchStatus # unknown
               /\ env' = env
          /\ (at = "bn_switchbox" /\ to # at) =>
               frame'["ctl"]["main"].gate[2] = probe.status]_vars

(* ------------------ the two nodes running without end ------------------ *)
\* Both nodes have booted and run loop(); the Controller's button is released
\* and stays so, the network is blocked exactly when the Switchbox's button is
\* engaged, and each node holds what the other last told it.  The Switchbox's
\* button moves and frames are lost as long as the environment's budget lasts;
\* time passes without end, so that the touch-base target is reached again
\* and again.

InitLive ==
  /\ \E o \in {blocked, unblocked} :
       /\ mem = [n \in Node |->
                   IF n = "ctl"
                   THEN AtRest(n, unblocked, o, o, [flash |-> 0, allIsGood |-> TRUE])
                   ELSE AtRest(n, o, unknown, o, [flash |-> 0, allIsGood |-> TRUE])]
       /\ button = [n \in Node |->
                      IF n = "sbx" /\ o = blocked THEN "engaged" ELSE "released"]
  /\ pc = [n \in Node |-> [t \in Task |-> IF t = "main" THEN "loop" ELSE "idle"]]
  /\ stack = [n \in Node |-> [t \in Task |-> << >>]]
  /\ frame = [n \in Node |-> [t \in Task |-> NoFrame]]
  /\ air = [n \in Node |-> << >>]
  /\ events = [n \in Node |-> << >>]
  /\ env = [toggles |-> 0, faults |-> 0, expiries |-> 0]
  /\ networkBlockingIsActive = FALSE
  /\ pins = NoPins
  /\ probe = [at |-> "live"]

\* time passes beyond nextTouchBaseTimeTarget, any number of times; the
\* target is seconds ahead, which is longer than the callbacks and the
\* iteration of loop() under way take
TimePasses(n) ==
  /\ NoneUrgent
  /\ probe.at = "live"
  /\ Quiet
  /\ ~mem[n].touchBaseDue
  /\ mem' = [mem EXCEPT ![n].touchBaseDue = TRUE]
  /\ UNCHANGED <<button, tasks, radio, env, pure>>

\* the iterations of loop() of node n
Runner(n) ==
  \/ loop(n)
  \/ loop_act(n)
  \/ periodicCheckToEnsureCommunicationsAreOK(n)
  \/ checkEmergencyStopButton_read(n, "main")
  \/ checkEmergencyStopButton_store(n, "main")
  \/ actionANetworkChangeAsNeeded(n, "main")
  \/ requestANetworkChangeAsNeeded(n, "main")
  \/ requestToBlockOrUnblockNetwork(n, "main")
  \/ requestToBlockOrUnblockNetwork_send(n, "main")
  \/ provideTheSwitchboxTheNetworkStatus(n, "main")
  \/ provideTheSwitchboxTheNetworkStatus_send(n, "main")
  \/ provideTheControllerTheSwitchboxStatus(n, "main")
  \/ provideTheControllerTheSwitchboxStatus_build(n, "main")
  \/ provideTheControllerTheSwitchboxStatus_send(n, "main")

\* the callbacks of node n with the routines they call
WiFiTask(n) == Callback(n) \/ Gate(n)

NextLive ==
  \/ \E n \in Node : Runner(n)
  \/ \E n \in Node : WiFiTask(n)
  \/ \E n \in Node : Deliver(n)
  \/ \E n \in Node : Lose(n)
  \/ \E n \in Node : TimePasses(n)
  \/ Toggle("sbx")

\* Either task of a node is scheduled again and again, the radio resolves
\* every frame it was handed, and millis() goes on counting.  A step that
\* waits for its turn behind the steps taken at once is one that can be taken
\* again and again: whatever the other node does, it is taken in the end.
Running ==
  \A n \in Node : /\ SF_vars(Runner(n))
                   /\ SF_vars(WiFiTask(n))
                   /\ SF_vars(Deliver(n))
                   /\ SF_vars(TimePasses(n))

SpecLive == InitLive /\ [][NextLive]_vars /\ Running

\* C34: if from some moment on the Switchbox's button is engaged, then, the
\* frames sent after the last loss all being delivered, the Controller's
\* NetworkStatus is blocked at some later moment, whenever one looks: also
\* when the requestControllerBlockNetwork sent for the press was lost.
C34_PressedSwitchboxBlocksInTheEnd ==
  <>[](button["sbx"] = "engaged") => []<>(mem["ctl"].NetworkStatus = blocked)

\* C35: if from some moment on both buttons are released, then, the frames
\* sent after the last loss all being delivered, the Controller's
\* NetworkStatus is unblocked at some later moment, whenever one looks: also
\* when the requestControllerUnblockNetwork sent for the release was lost.
C35_ReleasedSwitchesUnblockInTheEnd ==
  <>[](\A n \in Node : button[n] = "released")
    => []<>(mem["ctl"].NetworkStatus = unblocked)

(* ------------------------ the end of the boot -------------------------- *)

\* C36: when the Controller's setup() has returned from
\* actionANetworkChangeAsNeeded() and only has the network status left to
\* send, no callback running or pending, the relay is energised and
\* NetworkStatus is blocked if ControllerSwitchStatus is blocked or the
\* Switchbox's reply to requestTheSwitchboxStatus() has set
\* SwitchBoxSwitchStatus to blocked.
C36_BootEndsBlockedWhenASwitchIs ==
  (/\ pc["ctl"]["main"] = "setup_provide"
   /\ pc["ctl"]["wifi"] = "idle" /\ events["ctl"] = << >>
   /\ \/ mem["ctl"].ControllerSwitchStatus = blocked
      \/ mem["ctl"].SwitchBoxSwitchStatus = blocked)
    => mem["ctl"].NetworkStatus = blocked /\ mem["ctl"].relayPin = "HIGH"

\* C37: whenever the Controller's loop task is between two iterations of
\* loop(), whatever its WiFi task is doing, ControllerSwitchStatus == blocked
\* comes with NetworkStatus == blocked and the relay energised.
C37_OwnPressHoldsAfterEveryIteration ==
  (/\ mem["ctl"].thisIsTheController
   /\ pc["ctl"]["main"] = "loop"
   /\ mem["ctl"].ControllerSwitchStatus = blocked)
    => mem["ctl"].NetworkStatus = blocked /\ mem["ctl"].relayPin = "HIGH"

(* ----------------- the Controller without a Switchbox ------------------ *)
\* The build with useASwitchbox = false on a device wired as the Controller;
\* no second device runs.

InitAlone ==
  /\ mem = [n \in Node |-> Globals]
  /\ button \in {b \in [Node -> {"released", "engaged"}] : b["sbx"] = "released"}
  /\ pc = [n \in Node |-> [t \in Task |->
             IF t = "wifi" THEN "idle"
             ELSE IF n = "ctl" THEN "setup_role" ELSE "flash_forever"]]
  /\ stack = [n \in Node |-> [t \in Task |-> << >>]]
  /\ frame = [n \in Node |-> [t \in Task |-> NoFrame]]
  /\ air = [n \in Node |-> << >>]
  /\ events = [n \in Node |-> << >>]
  /\ env = [toggles |-> 0, faults |-> 0, expiries |-> 0]
  /\ networkBlockingIsActive = FALSE
  /\ pins = NoPins
  /\ probe = [at |-> "alone"]

\* setup() and loop() with the routines they call in this build
Alone(n) ==
  \/ setup_role(n)
  \/ setup_check(n)
  \/ setup_act(n)
  \/ loop(n)
  \/ loop_act(n)
  \/ periodicCheckToEnsureCommunicationsAreOK(n)
  \/ checkEmergencyStopButton_read(n, "main")
  \/ checkEmergencyStopButton_store(n, "main")
  \/ actionANetworkChangeAsNeeded(n, "main")
  \/ actionANetworkChangeAsNeeded_provide(n, "main")
  \/ BlockNetwork_guard(n, "main")
  \/ BlockNetwork_relay(n, "main")
  \/ BlockNetwork_status(n, "main")
  \/ provideTheSwitchboxTheNetworkStatus(n, "main")
  \/ provideTheSwitchboxTheNetworkStatus_send(n, "main")

NextAlone ==
  \/ Alone("ctl")
  \/ Toggle("ctl")
  \/ Expire("ctl")

SpecAlone == InitAlone /\ [][NextAlone]_vars

\* C38: in the build without a Switchbox the Controller does not run
\* initializeESPNOW(), does not come to a call of esp_now_send and does not
\* set the communications-problem flash rate, in setup() or after a change
\* of its own switch.
C38_NoTransportWithoutASwitchbox ==
  probe.at = "alone" =>
    /\ ~mem["ctl"].recvRegistered
    /\ pc["ctl"]["main"] \notin SendLabels \cup {"setup_espnow"}
    /\ mem["ctl"].FlashRateOfTheLED # CommsProblem

(* --------------------- BlockNetwork on either role --------------------- *)

\* calls of BlockNetwork taken in one behaviour
MaxGateCalls == 2

\* both nodes at rest, whatever network status the Switchbox was last told
InitGate ==
  /\ \E c \in ControllerAtRest, a \in Alarms, b \in Alarms,
        o \in {blocked, unblocked}, ns \in {blocked, unblocked} :
        mem = [n \in Node |->
                 IF n = "ctl" THEN AtRest(n, c.own, c.peer, c.network, a)
                              ELSE AtRest(n, o, unknown, ns, b)]
  /\ button \in {x \in [Node -> {"released", "engaged"}] :
                   /\ (x["ctl"] = "engaged") <=> (mem["ctl"].ControllerSwitchStatus = blocked)
                   /\ (x["sbx"] = "engaged") <=> (mem["sbx"].SwitchBoxSwitchStatus = blocked)}
  /\ pc = [n \in Node |-> [t \in Task |-> IF t = "main" THEN "loop" ELSE "idle"]]
  /\ stack = [n \in Node |-> [t \in Task |-> << >>]]
  /\ frame = [n \in Node |-> [t \in Task |-> NoFrame]]
  /\ air = [n \in Node |-> << >>]
  /\ events = [n \in Node |-> << >>]
  /\ env = [toggles |-> 1, faults |-> 0, expiries |-> 0]
  /\ networkBlockingIsActive = FALSE
  /\ pins = NoPins
  /\ probe = [at |-> "gate", polls |-> 0, called |-> << >>]

\* the loop task of node n calls BlockNetwork, whatever the role of n: with
\* any arguments on the Switchbox, as OnDataRecv calls it on the Controller
InvokeGate(n) ==
  /\ NoneUrgent
  /\ probe.at = "gate"
  /\ probe.polls < MaxGateCalls
  /\ pc[n]["main"] = "loop"
  /\ \E blockNow \in BOOLEAN, RequestCameFromController \in BOOLEAN :
       /\ mem[n].thisIsTheController => ~RequestCameFromController
       /\ Call(n, "main", "bn_entry", "loop",
               [NoFrame EXCEPT !.blockNow = blockNow,
                               !.RequestCameFromController = RequestCameFromController])
       /\ probe' = [probe EXCEPT !.polls = @ + 1,
                                 !.called = <<n, blockNow, RequestCameFromController>>]
  /\ UNCHANGED <<mem, button, radio, env, networkBlockingIsActive, pins>>

\* BlockNetwork in the loop task
Gated(n) ==
  \/ BlockNetwork_guard(n, "main")
  \/ BlockNetwork_reset(n, "main")
  \/ BlockNetwork_checkController(n, "main")
  \/ BlockNetwork_checkSwitchbox(n, "main")
  \/ BlockNetwork_relay(n, "main")
  \/ BlockNetwork_status(n, "main")

NextGate ==
  \/ \E n \in Node : InvokeGate(n)
  \/ \E n \in Node : Gated(n)

SpecGate == InitGate /\ [][NextGate]_vars

\* C39: on a node whose role is the Switchbox the relay pin is LOW, as
\* setupTheESP32Pins() left it, before and after every step, and
\* BlockNetwork entered there returns at its role test with every global,
\* the relay pin and NetworkStatus among them, as it was.
C39_SwitchboxNeverEnergisesTheRelay ==
  [][\A n \in Node :
       mem[n].thisIsTheSwitchbox =>
         /\ mem[n].relayPin = "LOW" /\ mem'[n].relayPin = "LOW"
         /\ \A t \in Task :
              (pc[n][t] = "bn_entry" /\ pc'[n][t] # "bn_entry") =>
                /\ pc'[n][t] = Head(stack[n][t])
                /\ mem' = mem]_vars

\* BlockNetwork(true, true) was called on the Switchbox, which held the
\* network to be unblocked, and has returned
C39_Witness ==
  /\ probe.at = "gate"
  /\ probe.called = <<"sbx", TRUE, TRUE>>
  /\ pc["sbx"]["main"] = "loop"
  /\ mem["sbx"].thisIsTheSwitchbox
  /\ mem["sbx"].NetworkStatus = unblocked
  /\ mem["sbx"].relayPin = "LOW"

(* --------- the reconfirmation schedule of the OPNsense sketch ---------- *)

\* const int confirmTheNetworkBlockingStatusOnceEveryThisManySeconds = 30
confirmTheNetworkBlockingStatusOnceEveryThisManySeconds == 30

\* the iterations of loop() taken on this schedule, at most
MaxLooks == 3

\* static long nextScheduledReconfirmation: the unsigned long sum
\* millis() + 30 * 1000 is stored in a signed long of 32 bits, in ticks
AsLong(u) == IF u >= ClockModulus \div 2 THEN u - ClockModulus ELSE u

\* millis() > nextScheduledReconfirmation compares an unsigned long with a
\* long: the long is converted to unsigned long
AsUnsignedLong(l) == IF l < 0 THEN l + ClockModulus ELSE l

\* the times from one call of checkEmergencyStopButton() to the next, in ms:
\* an iteration of loop(), half the period, the period, and just over it
Pauses == {4, 15000, 30000, 30004}

\* the instants, in ticks, at which a pass has just run: after the boot, where
\* the sum stored in the long changes its sign, 24.9 days after the boot, and
\* in the last half minute before millis() returns to 0, 49.7 days after it
ScheduleInstants ==
  {Ticks(5000), ClockModulus \div 2 - Ticks(15000),
   ClockModulus - Ticks(30004), ClockModulus - Ticks(15000),
   ClockModulus - Ticks(4)}

\* the statics of activateNetworkBlockingAsRequired() with the clock: previous
\* tells that a pass has run, since is the time since it began (since the
\* boot, before the first one), and ran that the last call ran a pass
Schedule(now, last, target, ok, previous) ==
  [at |-> "schedule", phase |-> "called", millis |-> now,
   lastnetworkBlockingIsActive |-> last,
   nextScheduledReconfirmation |-> target,
   everyThingIsAsItShouldBe |-> ok,
   previous |-> previous, since |-> 0, ran |-> previous, polls |-> 0]

\* the boot, or a pass has just run
InitSchedule ==
  /\ mem = [n \in Node |-> Globals]
  /\ button = [n \in Node |-> "released"]
  /\ pc = [n \in Node |-> [t \in Task |-> IF t = "main" THEN "loop" ELSE "idle"]]
  /\ stack = [n \in Node |-> [t \in Task |-> << >>]]
  /\ frame = [n \in Node |-> [t \in Task |-> NoFrame]]
  /\ air = [n \in Node |-> << >>]
  /\ events = [n \in Node |-> << >>]
  /\ env = [toggles |-> 0, faults |-> 0, expiries |-> 0]
  /\ pins = NoPins
  /\ \/ /\ networkBlockingIsActive = FALSE
        /\ probe = Schedule(0, FALSE, 0, TRUE, FALSE)
     \/ /\ networkBlockingIsActive \in BOOLEAN
        /\ \E now \in ScheduleInstants, ok \in BOOLEAN :
             probe = Schedule(now, networkBlockingIsActive,
                              AsLong(Ahead(now, confirmTheNetworkBlockingStatusOnceEveryThisManySeconds * 1000)),
                              ok, TRUE)

\* setup(), or the rest of the iteration of loop() after
\* checkEmergencyStopButton() has returned: time passes
Pause(ms) ==
  /\ probe.at = "schedule"
  /\ probe.phase = "called"
  /\ probe.polls < MaxLooks
  /\ probe' = [probe EXCEPT !.phase = "paused",
                            !.millis = (@ + Ticks(ms)) % ClockModulus,
                            !.since = @ + Ticks(ms),
                            !.polls = @ + 1]
  /\ UNCHANGED networkBlockingIsActive
  /\ RulesOnly

\* checkEmergencyStopButton() sets networkBlockingIsActive from the button and
\* calls activateNetworkBlockingAsRequired(): if the flag differs from
\* lastnetworkBlockingIsActive or millis() is beyond
\* nextScheduledReconfirmation, the flag is kept, the target is set to
\* millis() + 30 * 1000 and alignAllOPNsenseRules() runs, its result being
\* kept in everyThingIsAsItShouldBe
activateNetworkBlockingAsRequired_clock ==
  /\ probe.at = "schedule"
  /\ probe.phase = "paused"
  /\ networkBlockingIsActive' \in BOOLEAN
  /\ IF \/ networkBlockingIsActive' # probe.lastnetworkBlockingIsActive
        \/ probe.millis > AsUnsignedLong(probe.nextScheduledReconfirmation)
     THEN \E ok \in BOOLEAN :
            probe' = [probe EXCEPT
                        !.phase = "called",
                        !.lastnetworkBlockingIsActive = networkBlockingIsActive',
                        !.nextScheduledReconfirmation =
                           AsLong(Ahead(probe.millis,
                                        confirmTheNetworkBlockingStatusOnceEveryThisManySeconds * 1000)),
                        !.everyThingIsAsItShouldBe = ok,
                        !.previous = TRUE,
                        !.since = 0,
                        !.ran = TRUE]
     ELSE probe' = [probe EXCEPT !.phase = "called", !.ran = FALSE]
  /\ RulesOnly

NextSchedule ==
  \/ \E ms \in Pauses : Pause(ms)
  \/ activateNetworkBlockingAsRequired_clock

SpecSchedule == InitSchedule /\ [][NextSchedule]_vars

\* C40: a call of activateNetworkBlockingAsRequired() after a pass, an earlier
\* one that failed included, runs alignAllOPNsenseRules() if
\* networkBlockingIsActive differs from its value at the previous pass or
\* more than 30 s have passed since that pass, and makes no firewall call
\* otherwise.
C40_PassWhenChangedOrDueAndNoneBetween ==
  [][(/\ probe.at = "schedule"
      /\ probe.phase = "paused"
      /\ probe.previous
      /\ probe'.phase = "called")
     => (probe'.ran <=>
           \/ networkBlockingIsActive' # probe.lastnetworkBlockingIsActive
           \/ probe.since > Ticks(confirmTheNetworkBlockingStatusOnceEveryThisManySeconds * 1000))]_vars
====
